---------------------------- MODULE Spec2Model ----------------------------
(***************************************************************************)
(* Track metadata adapters (ID3v2, APEv2, Vorbis Comment, MP4, RIFF) and   *)
(* the Serato beatgrid marker set of src/track.                            *)
(*                                                                         *)
(* Two state machines share this module:                                   *)
(*   SpecBeatGrid  a caller building, dumping, parsing and comparing       *)
(*                 SeratoBeatGrid objects (track/serato/beatgrid.h);       *)
(*   Spec          a caller exporting a TrackMetadata into a tag object    *)
(*                 and importing it back (track/trackmetadatataglib.cpp).  *)
(* Each machine leaves the variables of the other one unchanged.           *)
(*                                                                         *)
(* Conventions.  A QString / TagLib::String is a sequence of one-character *)
(* strings, a QByteArray a sequence of numbers 0..255.  A float is held as *)
(* its IEEE-754 single precision bit pattern (a number below 2^32); the    *)
(* samples used all have the sign bit clear, where the order of the        *)
(* patterns is the order of the values.  A null pointer is an object       *)
(* record whose addr is 0.                                                 *)
(***************************************************************************)
EXTENDS Integers, Sequences, FiniteSets, TLC

VARIABLES
    \* ---- SeratoBeatGrid machine
    grid,       \* the caller's SeratoBeatGrid
    grid2,      \* a second SeratoBeatGrid of the caller
    data,       \* the QByteArray the caller holds
    fileType,   \* the taglib::FileType `data` was dumped for
    bgPc,       \* "build", "copied", "dumped" or "parsed"
    bgRet,      \* return value and arguments of the last parse
    bgPre,      \* the parse target as it was before the last parse
    eqRet,      \* result of the last operator== (grid, grid2)
    \* ---- callers of the tag adapters
    fileTag,    \* the tag object of the caller's file
    tm,         \* the TrackMetadata the caller imports into
    cover,      \* the QImage the caller imports cover art into
    tPc,        \* "start", "exported" or "done"
    exported,   \* the export the caller has made
    call,       \* the last call and its result
    pre         \* tag, tm and cover before the last call

bgVars == <<grid, grid2, data, fileType, bgPc, bgRet, bgPre, eqRet>>

tagVars == <<fileTag, tm, cover, tPc, exported, call, pre>>

vars == <<grid, grid2, data, fileType, bgPc, bgRet, bgPre, eqRet,
          fileTag, tm, cover, tPc, exported, call, pre>>

(***************************************************************************)
(* Bounds of the model.                                                    *)
(***************************************************************************)
\* Longest list of non-terminal markers a caller hands to the constructor
\* or to setNonTerminalMarkers.
MaxMarkers == 2

(***************************************************************************)
(* Generic helpers.                                                        *)
(***************************************************************************)
Range(s) == {s[i] : i \in DOMAIN s}

RECURSIVE SeqsUpTo(_, _)
SeqsUpTo(S, n) ==
    IF n = 0 THEN {<<>>}
    ELSE LET shorter == SeqsUpTo(S, n - 1)
         IN  shorter \cup {Append(s, x) : s \in {t \in shorter : Len(t) = n - 1}, x \in S}

RECURSIVE Flatten(_)
Flatten(ss) == IF ss = <<>> THEN <<>> ELSE Head(ss) \o Flatten(Tail(ss))

\* QDataStream in BigEndian byte order: a 32 bit and a 16 bit quantity
BE32(x) == << x \div 16777216, (x \div 65536) % 256, (x \div 256) % 256, x % 256 >>
BE16(x) == << (x \div 256) % 256, x % 256 >>
U32(b) == ((b[1] * 256 + b[2]) * 256 + b[3]) * 256 + b[4]
U16(b) == b[1] * 256 + b[2]


(***************************************************************************)
(* SeratoBeatGrid: the objects of track/serato/beatgrid.h.                 *)
(*                                                                         *)
(* A marker lives on the heap behind a std::shared_ptr: the record keeps   *)
(* the address of the object with its members.  Two pointers are equal     *)
(* when they hold the same address.                                        *)
(***************************************************************************)
\* taglib::FileType as deduced by getFileTypeFromFileName
FileTypes == {"MP3", "MP4", "FLAC", "OGG", "OPUS", "WAV", "WV", "AIFF", "UNKNOWN"}

\* The container families a caller hands to the beatgrid codec
ContainerFamilies == FileTypes \ {"UNKNOWN"}

\* float samples: 1.0f and 2.0f as positions, 120.0f as tempo
PositionSamples == {1065353216, 1073741824}
BpmSamples == {1123024896}
\* quint32 samples; the second one needs all four bytes
BeatsSamples == {4, 16777217}
\* quint8 samples
FooterSamples == {0, 55}

\* The non-terminal markers callers create: (1.0f, 4) and (2.0f, 16777217)
NonTerminalValues ==
    {[positionSecs |-> 1065353216, beats |-> 4],
     [positionSecs |-> 1073741824, beats |-> 16777217]}
TerminalValues == [positionSecs : PositionSamples, bpm : BpmSamples]

SeratoBeatGridNonTerminalMarker(addr, positionSecs, beatsTillNextMarker) ==
    [addr |-> addr, positionSecs |-> positionSecs, beats |-> beatsTillNextMarker]

SeratoBeatGridTerminalMarker(addr, positionSecs, bpm) ==
    [addr |-> addr, positionSecs |-> positionSecs, bpm |-> bpm]

\* an empty SeratoBeatGridTerminalMarkerPointer
NullTerminalMarker == SeratoBeatGridTerminalMarker(0, 0, 0)

\* SeratoBeatGrid() = default: both pointers members are empty, m_footer has
\* no initializer and holds whatever the storage held (footer)
DefaultSeratoBeatGrid(footer) ==
    [terminal |-> NullTerminalMarker, nonTerminal |-> <<>>, footer |-> footer]

\* SeratoBeatGrid(pTerminalMarker, nonTerminalMarkers)
SeratoBeatGrid(pTerminalMarker, nonTerminalMarkers) ==
    [terminal |-> pTerminalMarker, nonTerminal |-> nonTerminalMarkers, footer |-> 0]

isEmpty(g) == g.terminal.addr = 0 /\ g.nonTerminal = <<>>

setNonTerminalMarkers_Appending(g, nonTerminalMarkers) ==
    [g EXCEPT !.nonTerminal = g.nonTerminal \o nonTerminalMarkers]

setNonTerminalMarkers(g, nonTerminalMarkers) ==
    [g EXCEPT !.nonTerminal = nonTerminalMarkers]

setTerminalMarker(g, pTerminalMarker) ==
    [g EXCEPT !.terminal = pTerminalMarker]

setFooter_Dropped(g, footer) == g

setFooter(g, footer) == [g EXCEPT !.footer = footer]

\* operator==(const SeratoBeatGrid&, const SeratoBeatGrid&): the two
\* shared_ptr and the two QList of shared_ptr are compared, which compares
\* the addresses held
OperatorEq(lhs, rhs) ==
    /\ lhs.terminal.addr = rhs.terminal.addr
    /\ Len(lhs.nonTerminal) = Len(rhs.nonTerminal)
    /\ \A i \in DOMAIN lhs.nonTerminal :
           lhs.nonTerminal[i].addr = rhs.nonTerminal[i].addr

\* The addresses of the marker objects a grid keeps alive
Addrs(g) == ({g.terminal.addr} \cup {g.nonTerminal[i].addr : i \in DOMAIN g.nonTerminal}) \ {0}

\* std::make_shared: the k-th new object gets the k-th lowest address that
\* no live object occupies
FreshAddr(live, k) ==
    CHOOSE a \in 1..(Cardinality(live) + k) :
        /\ a \notin live
        /\ Cardinality({b \in 1..a : b \notin live}) = k

\* A caller (or parse) creating the marker objects for given member values;
\* the terminal marker is created after the non-terminal ones
MakeNonTerminalMarkers(vals, live) ==
    [i \in 1..Len(vals) |->
        SeratoBeatGridNonTerminalMarker(
            FreshAddr(live, i), vals[i].positionSecs, vals[i].beats)]

MakeTerminalMarker(val, live, k) ==
    SeratoBeatGridTerminalMarker(FreshAddr(live, k), val.positionSecs, val.bpm)

\* Addresses are opaque to every operation, so the machine keeps one
\* representative of each heap layout: the live objects are numbered in the
\* order in which g1 and then g2 reach them.
AddrOrder(g1, g2) ==
    [i \in 1..Len(g1.nonTerminal) |-> g1.nonTerminal[i].addr] \o << g1.terminal.addr >>
    \o [i \in 1..Len(g2.nonTerminal) |-> g2.nonTerminal[i].addr] \o << g2.terminal.addr >>

Renumber(a, order) ==
    IF a = 0 THEN 0
    ELSE LET first == CHOOSE i \in DOMAIN order :
                          order[i] = a /\ \A j \in 1..(i - 1) : order[j] # a
         IN  Cardinality({order[j] : j \in 1..first} \ {0})

RenumberGrid(g, order) ==
    [terminal |-> [g.terminal EXCEPT !.addr = Renumber(g.terminal.addr, order)],
     nonTerminal |-> [i \in 1..Len(g.nonTerminal) |->
         [g.nonTerminal[i] EXCEPT !.addr = Renumber(g.nonTerminal[i].addr, order)]],
     footer |-> g.footer]

\* What the marker pointers of a grid point to, and the footer: the value
\* of a Marker Set
MarkerSet(g) ==
    [terminal |-> [present |-> g.terminal.addr # 0,
                   positionSecs |-> g.terminal.positionSecs,
                   bpm |-> g.terminal.bpm],
     nonTerminal |-> [i \in 1..Len(g.nonTerminal) |->
                         [positionSecs |-> g.nonTerminal[i].positionSecs,
                          beats |-> g.nonTerminal[i].beats]],
     footer |-> g.footer]


(***************************************************************************)
(* The beatgrid codec.  track/serato/beatgrid.cpp is not part of the       *)
(* source tree at hand: the codec is modelled from its declarations in     *)
(* beatgrid.h and from section 4.8 of the specification.                   *)
(*                                                                         *)
(* Byte layout (big endian, widths of the declared member types):          *)
(*    version            2 bytes                                           *)
(*    non-terminal count 4 bytes (quint32)                                 *)
(*    terminal present   1 byte, 0 or 1                                    *)
(*    non-terminal marker, 8 bytes each: positionSecs (float),             *)
(*                                       beatsTillNextMarker (quint32)     *)
(*    terminal marker, 8 bytes if present: positionSecs (float),           *)
(*                                         bpm (float)                     *)
(*    footer             1 byte (quint8)                                   *)
(* Containers that store binary frames get these bytes, the other ones     *)
(* their base64 text.                                                      *)
(***************************************************************************)
kVersion == 256
kHeaderSize == 7
kMarkerSizeID3 == 8

\* The families whose container stores arbitrary binary frames (ID3v2)
IsBinaryFrameFamily(fileTypeArg) == fileTypeArg \in {"MP3", "AIFF"}

\* --- base64 (RFC 4648 alphabet, '=' padding), on ASCII codes
B64Char(v) ==
    IF v < 26 THEN 65 + v
    ELSE IF v < 52 THEN 97 + (v - 26)
    ELSE IF v < 62 THEN 48 + (v - 52)
    ELSE IF v = 62 THEN 43 ELSE 47

\* the 6 bit value of an alphabet character, -1 for any other byte
B64Val(c) ==
    IF c >= 65 /\ c <= 90 THEN c - 65
    ELSE IF c >= 97 /\ c <= 122 THEN c - 97 + 26
    ELSE IF c >= 48 /\ c <= 57 THEN c - 48 + 52
    ELSE IF c = 43 THEN 62
    ELSE IF c = 47 THEN 63 ELSE -1

RECURSIVE toBase64(_)
toBase64(b) ==
    IF b = <<>> THEN <<>>
    ELSE IF Len(b) = 1 THEN
        << B64Char(b[1] \div 4), B64Char((b[1] % 4) * 16), 61, 61 >>
    ELSE IF Len(b) = 2 THEN
        << B64Char(b[1] \div 4),
           B64Char((b[1] % 4) * 16 + b[2] \div 16),
           B64Char((b[2] % 16) * 4), 61 >>
    ELSE
        << B64Char(b[1] \div 4),
           B64Char((b[1] % 4) * 16 + b[2] \div 16),
           B64Char((b[2] % 16) * 4 + b[3] \div 64),
           B64Char(b[3] % 64) >> \o toBase64(SubSeq(b, 4, Len(b)))

\* One group of four characters; pad is the number of trailing '='
B64Group(t, pad) ==
    LET v1 == B64Val(t[1])
        v2 == B64Val(t[2])
        v3 == IF pad >= 2 THEN 0 ELSE B64Val(t[3])
        v4 == IF pad >= 1 THEN 0 ELSE B64Val(t[4])
        b1 == v1 * 4 + v2 \div 16
        b2 == (v2 % 16) * 16 + v3 \div 4
        b3 == (v3 % 4) * 64 + v4
    IN  IF v1 < 0 \/ v2 < 0 \/ v3 < 0 \/ v4 < 0 THEN [ok |-> FALSE, bytes |-> <<>>]
        ELSE [ok |-> TRUE,
              bytes |-> IF pad = 2 THEN <<b1>>
                        ELSE IF pad = 1 THEN <<b1, b2>> ELSE <<b1, b2, b3>>]

RECURSIVE fromBase64(_)
fromBase64(t) ==
    IF t = <<>> THEN [ok |-> TRUE, bytes |-> <<>>]
    ELSE IF Len(t) < 4 THEN [ok |-> FALSE, bytes |-> <<>>]
    ELSE IF Len(t) = 4 THEN
        B64Group(t, IF t[4] # 61 THEN 0 ELSE IF t[3] # 61 THEN 1 ELSE 2)
    ELSE
        LET g == B64Group(SubSeq(t, 1, 4), 0)
            r == fromBase64(SubSeq(t, 5, Len(t)))
        IN  IF g.ok /\ r.ok THEN [ok |-> TRUE, bytes |-> g.bytes \o r.bytes]
            ELSE [ok |-> FALSE, bytes |-> <<>>]

\* --- the markers
NonTerminalMarker_dumpID3(m) == BE32(m.positionSecs) \o BE32(m.beats)

TerminalMarker_dumpID3(m) == BE32(m.positionSecs) \o BE32(m.bpm)

\* nullptr (ok FALSE) unless the record has the marker size
NonTerminalMarker_parseID3(b) ==
    IF Len(b) # kMarkerSizeID3
    THEN [ok |-> FALSE, positionSecs |-> 0, beats |-> 0]
    ELSE [ok |-> TRUE, positionSecs |-> U32(SubSeq(b, 1, 4)), beats |-> U32(SubSeq(b, 5, 8))]

TerminalMarker_parseID3(b) ==
    IF Len(b) # kMarkerSizeID3
    THEN [ok |-> FALSE, positionSecs |-> 0, bpm |-> 0]
    ELSE [ok |-> TRUE, positionSecs |-> U32(SubSeq(b, 1, 4)), bpm |-> U32(SubSeq(b, 5, 8))]

\* --- the marker set
dumpID3(g) ==
    BE16(kVersion)
    \o BE32(Len(g.nonTerminal))
    \o << IF g.terminal.addr # 0 THEN 1 ELSE 0 >>
    \o Flatten([i \in 1..Len(g.nonTerminal) |-> NonTerminalMarker_dumpID3(g.nonTerminal[i])])
    \o (IF g.terminal.addr # 0 THEN TerminalMarker_dumpID3(g.terminal) ELSE <<>>)
    \o << g.footer >>

dumpBase64Encoded(g) == toBase64(dumpID3(g))

dump(g, fileTypeArg) ==
    IF IsBinaryFrameFamily(fileTypeArg) THEN dumpID3(g) ELSE dumpBase64Encoded(g)

\* The members read from the bytes, before any of them is stored
DecodeFailure ==
    [ok |-> FALSE, nonTerminal |-> <<>>,
     terminal |-> [ok |-> FALSE, positionSecs |-> 0, bpm |-> 0], footer |-> 0]

DecodeID3(d) ==
    IF Len(d) < kHeaderSize THEN DecodeFailure
    ELSE IF U16(SubSeq(d, 1, 2)) # kVersion THEN DecodeFailure
    ELSE IF d[7] \notin {0, 1} THEN DecodeFailure
    ELSE
        LET n == U32(SubSeq(d, 3, 6))
            t == d[7]
        IN  IF Len(d) # kHeaderSize + kMarkerSizeID3 * (n + t) + 1 THEN DecodeFailure
            ELSE
                [ok |-> TRUE,
                 nonTerminal |->
                    [i \in 1..n |->
                        NonTerminalMarker_parseID3(
                            SubSeq(d, kHeaderSize + kMarkerSizeID3 * (i - 1) + 1,
                                      kHeaderSize + kMarkerSizeID3 * i))],
                 terminal |->
                    IF t = 1
                    THEN TerminalMarker_parseID3(
                            SubSeq(d, kHeaderSize + kMarkerSizeID3 * n + 1,
                                      kHeaderSize + kMarkerSizeID3 * (n + 1)))
                    ELSE [ok |-> FALSE, positionSecs |-> 0, bpm |-> 0],
                 footer |-> d[Len(d)]]

\* Stores the decoded members through the setters; the marker objects are
\* created first (live: the addresses in use)
StoreDecoded(g, p, live) ==
    LET nts == MakeNonTerminalMarkers(p.nonTerminal, live)
        term == IF p.terminal.ok
                THEN MakeTerminalMarker(p.terminal, live, Len(p.nonTerminal) + 1)
                ELSE NullTerminalMarker
    IN  setFooter(setNonTerminalMarkers(setTerminalMarker(g, term), nts), p.footer)

parseID3_Partial(g, d, live) ==
    LET p == DecodeID3(d)
    IN  [ret |-> p.ok, grid |-> setFooter(g, IF d = <<>> THEN 0 ELSE d[Len(d)])]

parseID3(g, d, live) ==
    LET p == DecodeID3(d)
    IN  IF p.ok THEN [ret |-> TRUE, grid |-> StoreDecoded(g, p, live)]
        ELSE [ret |-> FALSE, grid |-> g]

parseBase64Encoded(g, base64EncodedData, live) ==
    LET dec == fromBase64(base64EncodedData)
    IN  IF dec.ok THEN parseID3(g, dec.bytes, live)
        ELSE [ret |-> FALSE, grid |-> g]

\* bool SeratoBeatGrid::parse(SeratoBeatGrid*, const QByteArray&, FileType)
parse(g, d, fileTypeArg, live) ==
    IF IsBinaryFrameFamily(fileTypeArg) THEN parseID3(g, d, live)
    ELSE parseBase64Encoded(g, d, live)


(***************************************************************************)
(***************************************************************************)
(* Track metadata adapters: track/trackmetadatataglib.cpp.                 *)
(***************************************************************************)
(***************************************************************************)

(***************************************************************************)
(* Strings (QString, TagLib::String): sequences of characters.             *)
(***************************************************************************)
DigitChars == << "0", "1", "2", "3", "4", "5", "6", "7", "8", "9" >>
LowerChars == << "a", "b", "c", "d", "e", "f", "g", "h", "i", "j", "k", "l", "m",
                 "n", "o", "p", "q", "r", "s", "t", "u", "v", "w", "x", "y", "z" >>
UpperChars == << "A", "B", "C", "D", "E", "F", "G", "H", "I", "J", "K", "L", "M",
                 "N", "O", "P", "Q", "R", "S", "T", "U", "V", "W", "X", "Y", "Z" >>

IsDigit(c) == \E i \in DOMAIN DigitChars : DigitChars[i] = c
DigitVal(c) == (CHOOSE i \in DOMAIN DigitChars : DigitChars[i] = c) - 1

UpperChar(c) ==
    IF \E i \in DOMAIN LowerChars : LowerChars[i] = c
    THEN UpperChars[CHOOSE i \in DOMAIN LowerChars : LowerChars[i] = c]
    ELSE c

ToUpper(str) == [i \in 1..Len(str) |-> UpperChar(str[i])]

\* 0 == a.compare(b, Qt::CaseInsensitive)
EqualsIgnoreCase(a, b) == ToUpper(a) = ToUpper(b)

\* QString::number(n) for n >= 0
RECURSIVE Digits(_)
Digits(n) ==
    IF n < 10 THEN << DigitChars[n + 1] >>
    ELSE Append(Digits(n \div 10), DigitChars[(n % 10) + 1])

RECURSIVE DigitsValue(_)
DigitsValue(str) ==
    IF str = <<>> THEN 0
    ELSE DigitsValue(SubSeq(str, 1, Len(str) - 1)) * 10 + DigitVal(str[Len(str)])

AllDigits(str) == str # <<>> /\ \A i \in DOMAIN str : IsDigit(str[i])

\* QString::toInt(&ok) on the unsigned decimal strings of the model
StrToInt(str) ==
    IF AllDigits(str) THEN [ok |-> TRUE, value |-> DigitsValue(str)]
    ELSE [ok |-> FALSE, value |-> 0]

\* TagLib::String::toInt(): the value of the leading digits, 0 without any
LeadingDigits(str) ==
    LET stop == IF \E i \in DOMAIN str : ~IsDigit(str[i])
                THEN (CHOOSE i \in DOMAIN str :
                         ~IsDigit(str[i]) /\ \A j \in 1..(i - 1) : IsDigit(str[j])) - 1
                ELSE Len(str)
    IN  SubSeq(str, 1, stop)

TagLibToInt(str) == DigitsValue(LeadingDigits(str))

\* QString::indexOf(c) + 1: 0 when c does not occur
IndexOf(str, c) ==
    IF \E i \in DOMAIN str : str[i] = c
    THEN CHOOSE i \in DOMAIN str : str[i] = c /\ \A j \in 1..(i - 1) : str[j] # c
    ELSE 0

\* QString::trimmed()
RECURSIVE Trimmed(_)
Trimmed(str) ==
    IF str = <<>> THEN str
    ELSE IF Head(str) = " " THEN Trimmed(Tail(str))
    ELSE IF str[Len(str)] = " " THEN Trimmed(SubSeq(str, 1, Len(str) - 1))
    ELSE str

\* toQStringFirstNotEmpty(const TagLib::StringList&)
toQStringFirstNotEmpty(strList) ==
    IF \E i \in DOMAIN strList : strList[i] # <<>>
    THEN strList[CHOOSE i \in DOMAIN strList :
                     strList[i] # <<>> /\ \A j \in 1..(i - 1) : strList[j] = <<>>]
    ELSE <<>>

(***************************************************************************)
(* track/tracknumbers.h is not part of the source tree at hand: modelled   *)
(* from sections 4.1 and 8 of the specification.                           *)
(***************************************************************************)
\* TrackNumbers::joinStrings
joinStrings(actualText, totalText) ==
    IF totalText = <<>> THEN actualText
    ELSE actualText \o << "/" >> \o totalText

\* TrackNumbers::splitString
splitString(str) ==
    LET k == IndexOf(str, "/")
    IN  IF k > 0
        THEN [actual |-> SubSeq(str, 1, k - 1), total |-> SubSeq(str, k + 1, Len(str))]
        ELSE [actual |-> str, total |-> <<>>]

\* TrackNumbers::parseFromStrings: EMPTY, VALID or INVALID with the numbers;
\* 0 stands for an undefined number
parseFromStrings(actualText, totalText) ==
    LET a == Trimmed(actualText)
        t == Trimmed(totalText)
        pa == StrToInt(a)
        pt == StrToInt(t)
    IN  IF a = <<>> /\ t = <<>> THEN [result |-> "EMPTY", actual |-> 0, total |-> 0]
        ELSE IF (a # <<>> /\ ~pa.ok) \/ (t # <<>> /\ ~pt.ok)
        THEN [result |-> "INVALID", actual |-> 0, total |-> 0]
        ELSE [result |-> "VALID",
              actual |-> IF a = <<>> THEN 0 ELSE pa.value,
              total |-> IF t = <<>> THEN 0 ELSE pt.value]

\* TrackNumbers::parseFromString
parseFromString(str) ==
    LET parts == splitString(str) IN parseFromStrings(parts.actual, parts.total)

\* TrackNumbers(actual, total).toStrings
toStrings(actual, total) ==
    [actual |-> IF actual > 0 THEN Digits(actual) ELSE <<>>,
     total |-> IF total > 0 THEN Digits(total) ELSE <<>>]


(***************************************************************************)
(* Numbers of the metadata model.  track/bpm.h, util/replaygain.h and      *)
(* track/trackmetadata.h are not part of the source tree at hand: they are *)
(* modelled from sections 3 and 4.1 of the specification.  A double is a   *)
(* fixed-point number, the integer FixedPointScale times its value.        *)
(***************************************************************************)
FixedPointScale == 100

RECURSIVE StripTrailingZeros(_)
StripTrailingZeros(str) ==
    IF str # <<>> /\ str[Len(str)] = "0"
    THEN StripTrailingZeros(SubSeq(str, 1, Len(str) - 1))
    ELSE str

RECURSIVE PadLeft(_, _)
PadLeft(str, width) == IF Len(str) >= width THEN str ELSE PadLeft(<< "0" >> \o str, width)

FractionWidth == Len(Digits(FixedPointScale)) - 1

\* QString::number(double) for a non-negative fixed-point number
FormatDecimal(n) ==
    LET frac == StripTrailingZeros(PadLeft(Digits(n % FixedPointScale), FractionWidth))
    IN  Digits(n \div FixedPointScale) \o (IF frac = <<>> THEN <<>> ELSE << "." >> \o frac)

RECURSIVE PadRight(_, _)
PadRight(str, width) == IF Len(str) >= width THEN str ELSE PadRight(Append(str, "0"), width)

\* QString::toDouble(&ok) for the unsigned decimal strings of the model
ParseDecimal(str) ==
    LET k == IndexOf(str, ".")
        whole == IF k > 0 THEN SubSeq(str, 1, k - 1) ELSE str
        frac == IF k > 0 THEN SubSeq(str, k + 1, Len(str)) ELSE <<>>
    IN  IF AllDigits(whole) /\ (k = 0 \/ AllDigits(frac)) /\ Len(frac) <= FractionWidth
        THEN [ok |-> TRUE,
              value |-> DigitsValue(whole) * FixedPointScale
                        + DigitsValue(PadRight(frac, FractionWidth))]
        ELSE [ok |-> FALSE, value |-> 0]

\* Bpm::kValueUndefined, Bpm::kValueMax (the maximum M of the specification)
Bpm_kValueUndefined == 0
Bpm_kValueMax == 200 * FixedPointScale

\* Bpm::isValidValue
Bpm_isValidValue(value) == value > Bpm_kValueUndefined

\* Bpm::hasValue
Bpm_hasValue(value) == Bpm_isValidValue(value)

\* Bpm::valueToString
Bpm_valueToString(value) == IF Bpm_isValidValue(value) THEN FormatDecimal(value) ELSE <<>>

\* Bpm::valueToInteger: the rounded value
Bpm_valueToInteger(value) ==
    IF Bpm_isValidValue(value)
    THEN (value + FixedPointScale \div 2) \div FixedPointScale
    ELSE Bpm_kValueUndefined

\* Bpm::valueFromString
Bpm_valueFromString(str) ==
    LET parsed == ParseDecimal(Trimmed(str))
    IN  IF parsed.ok THEN [valid |-> TRUE, value |-> parsed.value]
        ELSE [valid |-> FALSE, value |-> Bpm_kValueUndefined]

\* A replay gain ratio is held as its gain in dB; the ratio 0.0 has none.
ReplayGain_kRatioUndefined == [defined |-> FALSE, db |-> 0]
ReplayGain_kRatio0dB == [defined |-> TRUE, db |-> 0]
ReplayGain_kPeakUndefined == 0 - FixedPointScale

\* ReplayGain::isValidRatio, ReplayGain::isValidPeak
ReplayGain_isValidRatio(ratio) == ratio.defined
ReplayGain_isValidPeak(peak) == peak >= 0

\* ReplayGain::ratioToString
ReplayGain_ratioToString(ratio) ==
    IF ReplayGain_isValidRatio(ratio)
    THEN (IF ratio.db < 0 THEN << "-" >> \o FormatDecimal(0 - ratio.db)
          ELSE FormatDecimal(ratio.db)) \o << " ", "d", "B" >>
    ELSE <<>>

\* ReplayGain::ratioFromString
ReplayGain_ratioFromString(str) ==
    LET t1 == Trimmed(str)
        t2 == IF t1 # <<>> /\ Head(t1) = "+" THEN Trimmed(Tail(t1)) ELSE t1
        n == Len(t2)
        t3 == IF n >= 2 /\ EqualsIgnoreCase(SubSeq(t2, n - 1, n), << "d", "B" >>)
              THEN Trimmed(SubSeq(t2, 1, n - 2)) ELSE t2
        negative == t3 # <<>> /\ Head(t3) = "-"
        parsed == ParseDecimal(IF negative THEN Tail(t3) ELSE t3)
    IN  IF parsed.ok
        THEN [valid |-> TRUE,
              ratio |-> [defined |-> TRUE,
                         db |-> IF negative THEN 0 - parsed.value ELSE parsed.value]]
        ELSE [valid |-> FALSE, ratio |-> ReplayGain_kRatioUndefined]

\* ReplayGain::peakToString
ReplayGain_peakToString(peak) ==
    IF ReplayGain_isValidPeak(peak) THEN FormatDecimal(peak) ELSE <<>>

\* ReplayGain::peakFromString
ReplayGain_peakFromString(str) ==
    LET parsed == ParseDecimal(Trimmed(str))
    IN  IF parsed.ok THEN [valid |-> TRUE, peak |-> parsed.value]
        ELSE [valid |-> FALSE, peak |-> ReplayGain_kPeakUndefined]

(***************************************************************************)
(* Dates (QDate).                                                          *)
(***************************************************************************)
InvalidDate == [valid |-> FALSE, year |-> 0, month |-> 0, day |-> 0]

IsLeapYear(y) == (y % 4 = 0 /\ y % 100 # 0) \/ y % 400 = 0

DaysInMonth(y, m) ==
    IF m = 2 THEN (IF IsLeapYear(y) THEN 29 ELSE 28)
    ELSE IF m \in {4, 6, 9, 11} THEN 30 ELSE 31

\* QDate(y, m, d)
MakeDate(y, m, d) ==
    IF y >= 1 /\ m \in 1..12 /\ d >= 1 /\ d <= DaysInMonth(y, m)
    THEN [valid |-> TRUE, year |-> y, month |-> m, day |-> d]
    ELSE InvalidDate

\* QDate::fromString(str, Qt::ISODate): yyyy-MM-dd
DateFromISOString(str) ==
    IF /\ Len(str) = 10
       /\ str[5] = "-" /\ str[8] = "-"
       /\ AllDigits(SubSeq(str, 1, 4)) /\ AllDigits(SubSeq(str, 6, 7))
       /\ AllDigits(SubSeq(str, 9, 10))
    THEN MakeDate(DigitsValue(SubSeq(str, 1, 4)), DigitsValue(SubSeq(str, 6, 7)),
                  DigitsValue(SubSeq(str, 9, 10)))
    ELSE InvalidDate

\* QDate::fromString(str, "yyyyddMM")
DateFromYearDayMonth(str) ==
    IF Len(str) = 8 /\ AllDigits(str)
    THEN MakeDate(DigitsValue(SubSeq(str, 1, 4)), DigitsValue(SubSeq(str, 7, 8)),
                  DigitsValue(SubSeq(str, 5, 6)))
    ELSE InvalidDate

\* QDate::toString(ID3V2_TYER_FORMAT), QDate::toString(ID3V2_TDAT_FORMAT)
ID3V2_TYER_FORMAT(date) == PadLeft(Digits(date.year), 4)
ID3V2_TDAT_FORMAT(date) == PadLeft(Digits(date.day), 2) \o PadLeft(Digits(date.month), 2)

\* TrackMetadata::parseDate, TrackMetadata::parseDateTime(..).date()
parseDate(str) == DateFromISOString(Trimmed(str))

\* TrackMetadata::formatDate
formatDate(date) ==
    PadLeft(Digits(date.year), 4) \o << "-" >> \o PadLeft(Digits(date.month), 2)
        \o << "-" >> \o PadLeft(Digits(date.day), 2)

\* TrackMetadata::formatCalendarYear
formatCalendarYear(year) ==
    LET date == parseDate(year)
        number == StrToInt(Trimmed(year))
    IN  IF date.valid THEN [valid |-> TRUE, text |-> Digits(date.year)]
        ELSE IF number.ok THEN [valid |-> TRUE, text |-> Digits(number.value)]
        ELSE [valid |-> FALSE, text |-> <<>>]

(***************************************************************************)
(* TrackMetadata: the canonical metadata model.                            *)
(***************************************************************************)
\* TrackMetadata()
TrackMetadata ==
    [title |-> <<>>, artist |-> <<>>, album |-> <<>>, genre |-> <<>>,
     comment |-> <<>>, albumArtist |-> <<>>, composer |-> <<>>, grouping |-> <<>>,
     key |-> <<>>, year |-> <<>>, trackNumber |-> <<>>, trackTotal |-> <<>>,
     bpm |-> Bpm_kValueUndefined,
     replayGain |-> [ratio |-> ReplayGain_kRatioUndefined,
                     peak |-> ReplayGain_kPeakUndefined],
     channels |-> 0, sampleRate |-> 0, bitrate |-> 0, duration |-> 0]

\* parseBpm: the validity of the text and the model after the call
parseBpm(trackMetadata, sBpm) ==
    LET parsed == Bpm_valueFromString(sBpm)
    IN  [valid |-> parsed.valid,
         tm |-> IF parsed.valid THEN [trackMetadata EXCEPT !.bpm = parsed.value]
                ELSE trackMetadata]

\* a variant that stores the ratio of 0 dB as it was parsed
parseTrackGain_Literal(trackMetadata, dbGain) ==
    LET parsed == ReplayGain_ratioFromString(dbGain)
    IN  [valid |-> parsed.valid,
         tm |-> IF parsed.valid
                THEN [trackMetadata EXCEPT !.replayGain.ratio = parsed.ratio]
                ELSE trackMetadata]

\* parseTrackGain
parseTrackGain(trackMetadata, dbGain) ==
    LET parsed == ReplayGain_ratioFromString(dbGain)
        ratio == IF parsed.ratio = ReplayGain_kRatio0dB
                 THEN ReplayGain_kRatioUndefined ELSE parsed.ratio
    IN  [valid |-> parsed.valid,
         tm |-> IF parsed.valid
                THEN [trackMetadata EXCEPT !.replayGain.ratio = ratio]
                ELSE trackMetadata]

\* parseTrackPeak
parseTrackPeak(trackMetadata, strPeak) ==
    LET parsed == ReplayGain_peakFromString(strPeak)
        valid == parsed.valid /\ ReplayGain_isValidPeak(parsed.peak)
    IN  [valid |-> valid,
         tm |-> IF valid THEN [trackMetadata EXCEPT !.replayGain.peak = parsed.peak]
                ELSE trackMetadata]

\* formatBpm, formatBpmInteger, formatTrackGain, formatTrackPeak
formatBpm(trackMetadata) == Bpm_valueToString(trackMetadata.bpm)
formatBpmInteger(trackMetadata) == Digits(Bpm_valueToInteger(trackMetadata.bpm))
formatTrackGain(trackMetadata) == ReplayGain_ratioToString(trackMetadata.replayGain.ratio)
formatTrackPeak(trackMetadata) == ReplayGain_peakToString(trackMetadata.replayGain.peak)


(***************************************************************************)
(* Tags.  A tag object of the tagging library is a record                  *)
(*    kind      "ID3v2", "APE", "Xiph", "MP4" or "RIFF"                    *)
(*    std       title, artist, album and genre as the generic accessors    *)
(*              of the library store them                                  *)
(*    header    ID3v2: the major version, 0 for a missing header           *)
(*    frames    ID3v2: the frames in tag order                             *)
(*    fields    APE items and Vorbis Comment fields: key -> value list,    *)
(*              the empty list for a missing entry                         *)
(*    atoms     MP4: key -> item                                           *)
(*    pictures  Vorbis Comment: the structured picture list                *)
(*    legacy    Vorbis Comment: the base64 texts of METADATA_BLOCK_PICTURE *)
(*              and COVERART                                               *)
(*    apeCover  APE: the binary item COVER ART (FRONT)                     *)
(*    info      RIFF: comment, year and track of the generic accessors     *)
(* The library itself is an external collaborator: its accessors are       *)
(* modelled by what the adapters rely on.                                  *)
(***************************************************************************)
RemoveAt(seq, i) == SubSeq(seq, 1, i - 1) \o SubSeq(seq, i + 1, Len(seq))

MinOf(S) == CHOOSE x \in S : \A y \in S : x <= y

\* TagLib::StringList::toString(separator)
RECURSIVE Join(_, _)
Join(strList, separator) ==
    IF strList = <<>> THEN <<>>
    ELSE IF Len(strList) = 1 THEN strList[1]
    ELSE strList[1] \o separator \o Join(Tail(strList), separator)

FirstOf(strList) == IF strList = <<>> THEN <<>> ELSE strList[1]

APEKeys ==
    {"COMMENT", "Year", "Track", "Album Artist", "Composer", "Grouping", "BPM",
     "REPLAYGAIN_TRACK_GAIN", "REPLAYGAIN_TRACK_PEAK"}

XiphKeys ==
    {"DESCRIPTION", "COMMENT", "DATE", "TRACKNUMBER", "TRACKTOTAL", "TOTALTRACKS",
     "ALBUMARTIST", "ALBUM_ARTIST", "ALBUM ARTIST", "ENSEMBLE", "COMPOSER",
     "GROUPING", "TEMPO", "BPM", "INITIALKEY", "KEY",
     "REPLAYGAIN_TRACK_GAIN", "REPLAYGAIN_TRACK_PEAK"}

\* "(c)" stands for the byte \251 of the atom names
MP4Keys ==
    {"(c)cmt", "(c)day", "trkn", "aART", "(c)wrt", "(c)grp", "tmpo", "covr",
     "----:com.apple.iTunes:BPM",
     "----:com.apple.iTunes:replaygain_track_gain",
     "----:com.apple.iTunes:replaygain_track_peak",
     "----:com.apple.iTunes:initialkey",
     "----:com.apple.iTunes:KEY"}

\* TagLib::MP4::Item: no item, a string list, an integer pair, an integer
\* with its declared atom type, or a cover art list
NoItem ==
    [type |-> "none", strs |-> <<>>, first |-> 0, second |-> 0,
     atomDataType |-> "TypeUndefined", covers |-> <<>>]
StringListItem(strList) == [NoItem EXCEPT !.type = "stringList", !.strs = strList]
IntPairItem(first, second) ==
    [NoItem EXCEPT !.type = "intPair", !.first = first, !.second = second]
IntItem(value, atomDataType) ==
    [NoItem EXCEPT !.type = "int", !.first = value, !.atomDataType = atomDataType]
CoverArtListItem(covers) == [NoItem EXCEPT !.type = "coverArtList", !.covers = covers]

EmptyStd == [title |-> <<>>, artist |-> <<>>, album |-> <<>>, genre |-> <<>>]

EmptyTag(kind) ==
    [kind |-> kind,
     std |-> EmptyStd,
     header |-> IF kind = "ID3v2" THEN 4 ELSE 0,
     frames |-> <<>>,
     fields |-> IF kind = "APE" THEN [k \in APEKeys |-> <<>>]
                ELSE IF kind = "Xiph" THEN [k \in XiphKeys |-> <<>>]
                ELSE <<>>,
     atoms |-> IF kind = "MP4" THEN [k \in MP4Keys |-> NoItem] ELSE <<>>,
     pictures |-> <<>>,
     legacy |-> [METADATA_BLOCK_PICTURE |-> <<>>, COVERART |-> <<>>],
     apeCover |-> [present |-> FALSE, value |-> <<>>],
     info |-> [comment |-> <<>>, year |-> 0, track |-> 0]]

(***************************************************************************)
(* ID3v2 frames.                                                           *)
(***************************************************************************)
NoFrameFields ==
    [fieldList |-> <<>>, description |-> <<>>, text |-> <<>>,
     type |-> "None", picture |-> <<>>]

\* TagLib::ID3v2::TextIdentificationFrame(id) with setText(text)
TextIdentificationFrame(id, text) ==
    [id |-> id, fieldList |-> << text >>, description |-> <<>>, text |-> <<>>,
     type |-> "None", picture |-> <<>>]

\* TagLib::ID3v2::CommentsFrame with setDescription and setText
CommentsFrame(description, text) ==
    [id |-> "COMM", fieldList |-> <<>>, description |-> description, text |-> text,
     type |-> "None", picture |-> <<>>]

\* TagLib::ID3v2::UserTextIdentificationFrame: the first field is the
\* description, the second one the value
UserTextIdentificationFrame(fieldList) ==
    [id |-> "TXXX", fieldList |-> fieldList, description |-> <<>>, text |-> <<>>,
     type |-> "None", picture |-> <<>>]

\* TagLib::ID3v2::AttachedPictureFrame
AttachedPictureFrame(type, picture) ==
    [id |-> "APIC", fieldList |-> <<>>, description |-> <<>>, text |-> <<>>,
     type |-> type, picture |-> picture]

\* Frame::description()
FrameDescription(frame) ==
    IF frame.id = "TXXX" THEN FirstOf(frame.fieldList) ELSE frame.description

\* Frame::toString()
FrameToString(frame) ==
    IF frame.id = "COMM" THEN frame.text
    ELSE IF frame.id = "TXXX"
    THEN << "[" >> \o FrameDescription(frame) \o << "]", " " >>
             \o Join(frame.fieldList, << " " >>)
    ELSE IF frame.id = "APIC" THEN << "[", "]" >>
    ELSE Join(frame.fieldList, << " " >>)

\* the indexes of tag.frameListMap()[id], in tag order
FrameIndexes(frames, id) == {i \in DOMAIN frames : frames[i].id = id}

\* tag.frameListMap()[id]
FrameList(frames, id) ==
    LET HasId(frame) == frame.id = id IN SelectSeq(frames, HasId)

\* toQStringFirstNotEmpty(const TagLib::ID3v2::FrameList&)
toQStringFirstNotEmpty_FrameList(frameList) ==
    toQStringFirstNotEmpty([i \in DOMAIN frameList |-> FrameToString(frameList[i])])

\* pTag->removeFrames(id)
removeFrames(frames, id) ==
    LET Other(frame) == frame.id # id IN SelectSeq(frames, Other)

\* a variant that returns the first matching frame, empty or not
findFirstCommentsFrame_First(frames, description, preferNotEmpty) ==
    LET matching == {i \in FrameIndexes(frames, "COMM") :
                        EqualsIgnoreCase(FrameDescription(frames[i]), description)}
    IN  IF matching # {} THEN MinOf(matching) ELSE 0

\* findFirstCommentsFrame: the index of the frame, 0 for nullptr
findFirstCommentsFrame(frames, description, preferNotEmpty) ==
    LET matching == {i \in FrameIndexes(frames, "COMM") :
                        EqualsIgnoreCase(FrameDescription(frames[i]), description)}
        wanted == {i \in matching :
                      ~(preferNotEmpty /\ FrameToString(frames[i]) = <<>>)}
    IN  IF wanted # {} THEN MinOf(wanted)
        ELSE IF matching # {} THEN MinOf(matching)
        ELSE 0

\* findFirstUserTextIdentificationFrame: the index of the frame, 0 for nullptr
findFirstUserTextIdentificationFrame(frames, description, preferNotEmpty) ==
    LET matching == {i \in FrameIndexes(frames, "TXXX") :
                        EqualsIgnoreCase(FrameDescription(frames[i]), description)}
        wanted == {i \in matching :
                      ~(preferNotEmpty /\ FrameToString(frames[i]) = <<>>)}
    IN  IF wanted # {} THEN MinOf(wanted)
        ELSE IF matching # {} THEN MinOf(matching)
        ELSE 0

\* a variant that does not restart the loop after the first removal
removeUserTextIdentificationFrames_Once(frames, description) ==
    LET matching == {i \in FrameIndexes(frames, "TXXX") :
                        EqualsIgnoreCase(FrameDescription(frames[i]), description)}
    IN  IF matching = {} THEN [count |-> 0, frames |-> frames]
        ELSE [count |-> 1, frames |-> RemoveAt(frames, MinOf(matching))]

\* removeUserTextIdentificationFrames: the count and the remaining frames
RECURSIVE removeUserTextIdentificationFrames(_, _)
removeUserTextIdentificationFrames(frames, description) ==
    LET matching == {i \in FrameIndexes(frames, "TXXX") :
                        EqualsIgnoreCase(FrameDescription(frames[i]), description)}
    IN  IF matching = {} THEN [count |-> 0, frames |-> frames]
        ELSE LET repeat == removeUserTextIdentificationFrames(
                               RemoveAt(frames, MinOf(matching)), description)
             IN  [count |-> repeat.count + 1, frames |-> repeat.frames]

\* a variant that keeps the frames of the id and appends the new one
writeID3v2TextIdentificationFrame_Keeping(frames, id, text) ==
    IF text # <<>> THEN Append(frames, TextIdentificationFrame(id, text)) ELSE frames

\* writeID3v2TextIdentificationFrame
writeID3v2TextIdentificationFrame(frames, id, text) ==
    LET removed == removeFrames(frames, id)
    IN  IF text # <<>> THEN Append(removed, TextIdentificationFrame(id, text))
        ELSE removed

COMMENT == << "C", "O", "M", "M", "E", "N", "T" >>
REPLAYGAIN_TRACK_GAIN ==
    << "R", "E", "P", "L", "A", "Y", "G", "A", "I", "N", "_",
       "T", "R", "A", "C", "K", "_", "G", "A", "I", "N" >>
REPLAYGAIN_TRACK_PEAK ==
    << "R", "E", "P", "L", "A", "Y", "G", "A", "I", "N", "_",
       "T", "R", "A", "C", "K", "_", "P", "E", "A", "K" >>

\* a variant that takes the first COMM frame whatever its description
writeID3v2CommentsFrame_AnyDescription(frames, text, description) ==
    LET pFrame == IF FrameIndexes(frames, "COMM") # {}
                  THEN MinOf(FrameIndexes(frames, "COMM")) ELSE 0
        written ==
            IF pFrame # 0
            THEN IF text = <<>> THEN RemoveAt(frames, pFrame)
                 ELSE [frames EXCEPT ![pFrame].description = description,
                                     ![pFrame].text = text]
            ELSE IF text # <<>> THEN Append(frames, CommentsFrame(description, text))
                 ELSE frames
    IN  removeUserTextIdentificationFrames(written, COMMENT).frames

\* writeID3v2CommentsFrame
writeID3v2CommentsFrame(frames, text, description) ==
    LET pFrame == findFirstCommentsFrame(frames, description, TRUE)
        written ==
            IF pFrame # 0
            THEN IF text = <<>> THEN RemoveAt(frames, pFrame)
                 ELSE [frames EXCEPT ![pFrame].description = description,
                                     ![pFrame].text = text]
            ELSE IF text # <<>> THEN Append(frames, CommentsFrame(description, text))
                 ELSE frames
    IN  removeUserTextIdentificationFrames(written, COMMENT).frames

\* writeID3v2UserTextIdentificationFrame
writeID3v2UserTextIdentificationFrame(frames, text, description) ==
    LET pFrame == findFirstUserTextIdentificationFrame(frames, description, TRUE)
    IN  IF pFrame # 0
        THEN IF text = <<>> THEN RemoveAt(frames, pFrame)
             ELSE [frames EXCEPT ![pFrame].fieldList = << description, text >>]
        ELSE IF text # <<>>
             THEN Append(frames, UserTextIdentificationFrame(<< description, text >>))
             ELSE frames

(***************************************************************************)
(* MP4 atoms, APE items, Vorbis Comment fields.                            *)
(***************************************************************************)
\* TagLib::MP4::Item::toStringList()
Item_toStringList(item) == IF item.type = "stringList" THEN item.strs ELSE <<>>

\* readMP4Atom: found and the value
readMP4Atom(tag, key) ==
    IF tag.atoms[key].type # "none"
    THEN [found |-> TRUE,
          value |-> toQStringFirstNotEmpty(Item_toStringList(tag.atoms[key]))]
    ELSE [found |-> FALSE, value |-> <<>>]

\* a variant that stores the empty value instead of purging the atom
writeMP4Atom_Storing(tag, key, value) ==
    [tag EXCEPT !.atoms[key] = StringListItem(<< value >>)]

\* writeMP4Atom
writeMP4Atom(tag, key, value) ==
    IF value = <<>> THEN [tag EXCEPT !.atoms[key] = NoItem]
    ELSE [tag EXCEPT !.atoms[key] = StringListItem(<< value >>)]

\* updateMP4Atom
updateMP4Atom(tag, key, value) ==
    IF readMP4Atom(tag, key).found THEN writeMP4Atom(tag, key, value) ELSE tag

\* readAPEItem
readAPEItem(tag, key) ==
    IF tag.fields[key] # <<>>
    THEN [found |-> TRUE, value |-> toQStringFirstNotEmpty(tag.fields[key])]
    ELSE [found |-> FALSE, value |-> <<>>]

\* writeAPEItem
writeAPEItem(tag, key, value) ==
    IF value = <<>> THEN [tag EXCEPT !.fields[key] = <<>>]
    ELSE [tag EXCEPT !.fields[key] = << value >>]

\* readXiphCommentField
readXiphCommentField(tag, key) ==
    IF tag.fields[key] # <<>>
    THEN [found |-> TRUE, value |-> toQStringFirstNotEmpty(tag.fields[key])]
    ELSE [found |-> FALSE, value |-> <<>>]

\* writeXiphCommentField
writeXiphCommentField(tag, key, value) ==
    IF value = <<>> THEN [tag EXCEPT !.fields[key] = <<>>]
    ELSE [tag EXCEPT !.fields[key] = << value >>]

\* a variant that updates the alternative field only with a non-empty value
updateXiphCommentField_NoPurge(tag, key, value) ==
    IF readXiphCommentField(tag, key).found /\ value # <<>>
    THEN writeXiphCommentField(tag, key, value) ELSE tag

\* a variant that writes the alternative field whether it exists or not
updateXiphCommentField_Always(tag, key, value) == writeXiphCommentField(tag, key, value)

\* updateXiphCommentField
updateXiphCommentField(tag, key, value) ==
    IF readXiphCommentField(tag, key).found
    THEN writeXiphCommentField(tag, key, value) ELSE tag

(***************************************************************************)
(* The generic accessors of TagLib::Tag, by kind of tag.                   *)
(***************************************************************************)
\* tag.comment()
Tag_comment(tag) ==
    IF tag.kind = "ID3v2"
    THEN LET comments == FrameIndexes(tag.frames, "COMM")
             plain == {i \in comments : FrameDescription(tag.frames[i]) = <<>>}
         IN  IF comments = {} THEN <<>>
             ELSE IF plain # {} THEN FrameToString(tag.frames[MinOf(plain)])
             ELSE FrameToString(tag.frames[MinOf(comments)])
    ELSE IF tag.kind = "APE" THEN Join(tag.fields["COMMENT"], << " " >>)
    ELSE IF tag.kind = "Xiph"
    THEN IF tag.fields["DESCRIPTION"] # <<>>
         THEN Join(tag.fields["DESCRIPTION"], << " " >>)
         ELSE Join(tag.fields["COMMENT"], << " " >>)
    ELSE IF tag.kind = "MP4"
    THEN Join(Item_toStringList(tag.atoms["(c)cmt"]), << ",", " " >>)
    ELSE tag.info.comment

\* tag.year()
Tag_year(tag) ==
    IF tag.kind = "ID3v2"
    THEN LET recordingTime == FrameList(tag.frames, "TDRC")
         IN  IF recordingTime = <<>> THEN 0
             ELSE LET text == FrameToString(recordingTime[1])
                  IN  TagLibToInt(SubSeq(text, 1, IF Len(text) < 4 THEN Len(text) ELSE 4))
    ELSE IF tag.kind = "APE" THEN TagLibToInt(FirstOf(tag.fields["Year"]))
    ELSE IF tag.kind = "Xiph" THEN TagLibToInt(FirstOf(tag.fields["DATE"]))
    ELSE IF tag.kind = "MP4"
    THEN TagLibToInt(Join(Item_toStringList(tag.atoms["(c)day"]), << " " >>))
    ELSE tag.info.year

\* tag.track()
Tag_track(tag) ==
    IF tag.kind = "ID3v2"
    THEN LET trackNumber == FrameList(tag.frames, "TRCK")
         IN  IF trackNumber = <<>> THEN 0 ELSE TagLibToInt(FrameToString(trackNumber[1]))
    ELSE IF tag.kind = "APE" THEN TagLibToInt(FirstOf(tag.fields["Track"]))
    ELSE IF tag.kind = "Xiph" THEN TagLibToInt(FirstOf(tag.fields["TRACKNUMBER"]))
    ELSE IF tag.kind = "MP4" THEN tag.atoms["trkn"].first
    ELSE tag.info.track

\* pTag->setComment(s)
Tag_setComment(tag, s) ==
    IF tag.kind = "ID3v2"
    THEN LET comments == FrameIndexes(tag.frames, "COMM")
         IN  IF s = <<>> THEN [tag EXCEPT !.frames = removeFrames(tag.frames, "COMM")]
             ELSE IF comments # {}
             THEN [tag EXCEPT !.frames[MinOf(comments)].text = s]
             ELSE [tag EXCEPT !.frames = Append(tag.frames, CommentsFrame(<<>>, s))]
    ELSE IF tag.kind = "APE" THEN writeAPEItem(tag, "COMMENT", s)
    ELSE IF tag.kind = "Xiph"
    THEN writeXiphCommentField(
             tag, IF tag.fields["DESCRIPTION"] # <<>> THEN "DESCRIPTION" ELSE "COMMENT", s)
    ELSE IF tag.kind = "MP4" THEN [tag EXCEPT !.atoms["(c)cmt"] = StringListItem(<< s >>)]
    ELSE [tag EXCEPT !.info.comment = s]

\* pTag->setYear(i)
Tag_setYear(tag, i) ==
    LET text == IF i > 0 THEN Digits(i) ELSE <<>>
    IN  IF tag.kind = "ID3v2"
        THEN [tag EXCEPT !.frames = writeID3v2TextIdentificationFrame(tag.frames, "TDRC", text)]
        ELSE IF tag.kind = "APE" THEN writeAPEItem(tag, "Year", text)
        ELSE IF tag.kind = "Xiph" THEN writeXiphCommentField(tag, "DATE", text)
        ELSE IF tag.kind = "MP4"
        THEN [tag EXCEPT !.atoms["(c)day"] = StringListItem(<< Digits(i) >>)]
        ELSE [tag EXCEPT !.info.year = i]

\* pTag->setTrack(i)
Tag_setTrack(tag, i) ==
    LET text == IF i > 0 THEN Digits(i) ELSE <<>>
    IN  IF tag.kind = "ID3v2"
        THEN [tag EXCEPT !.frames = writeID3v2TextIdentificationFrame(tag.frames, "TRCK", text)]
        ELSE IF tag.kind = "APE" THEN writeAPEItem(tag, "Track", text)
        ELSE IF tag.kind = "Xiph" THEN writeXiphCommentField(tag, "TRACKNUMBER", text)
        ELSE IF tag.kind = "MP4" THEN [tag EXCEPT !.atoms["trkn"] = IntPairItem(i, 0)]
        ELSE [tag EXCEPT !.info.track = i]


(***************************************************************************)
(* Audio properties and cover art.                                         *)
(***************************************************************************)
\* readAudioProperties(TrackMetadata*, const TagLib::AudioProperties&)
readAudioProperties_Properties(trackMetadata, audioProperties) ==
    [trackMetadata EXCEPT !.channels = audioProperties.channels,
                          !.sampleRate = audioProperties.sampleRate,
                          !.bitrate = audioProperties.bitrate,
                          !.duration = audioProperties.lengthInMilliseconds]

\* readAudioProperties(TrackMetadata*, const TagLib::File&): the result and
\* the model after the call
readAudioProperties(pTrackMetadataNull, trackMetadata, file) ==
    IF ~file.isValid THEN [ret |-> FALSE, tm |-> trackMetadata]
    ELSE IF pTrackMetadataNull THEN [ret |-> TRUE, tm |-> trackMetadata]
    ELSE IF ~file.hasAudioProperties THEN [ret |-> FALSE, tm |-> trackMetadata]
    ELSE [ret |-> TRUE,
          tm |-> readAudioProperties_Properties(trackMetadata, file.audioProperties)]

\* An image file starts with this byte; the decoder of QImage is external
kImageMagic == 137

\* QImage(): the null image
NullImage == <<>>

\* loadImageFromByteVector: the decoded image, identified by its bytes
loadImageFromByteVector(imageData) ==
    IF imageData # <<>> /\ imageData[1] = kImageMagic THEN imageData ELSE NullImage

\* the first loadable image of a list of pictures, the null image without any
FirstLoadableImage(pictures) ==
    LET loadable == {i \in DOMAIN pictures :
                        loadImageFromByteVector(pictures[i].data) # NullImage}
    IN  IF loadable = {} THEN NullImage
        ELSE loadImageFromByteVector(pictures[MinOf(loadable)].data)

kPreferredID3v2PictureTypes == << "FrontCover", "Media", "Illustration", "Other" >>
kPreferredVorbisCommentPictureTypes == << "FrontCover", "Media", "Illustration", "Other" >>

\* the pictures in the order the two loops visit them: by preferred type,
\* then the whole list
RECURSIVE PicturesByType(_, _)
PicturesByType(pictures, types) ==
    IF types = <<>> THEN <<>>
    ELSE LET OfType(picture) == picture.type = Head(types)
         IN  SelectSeq(pictures, OfType) \o PicturesByType(pictures, Tail(types))

\* a variant without the loop over the preferred types
importCoverImageFromVorbisCommentPictureList_AnyType(pictures) ==
    IF pictures = <<>> THEN NullImage ELSE FirstLoadableImage(pictures)

\* importCoverImageFromVorbisCommentPictureList
importCoverImageFromVorbisCommentPictureList(pictures) ==
    IF pictures = <<>> THEN NullImage
    ELSE FirstLoadableImage(
             PicturesByType(pictures, kPreferredVorbisCommentPictureTypes) \o pictures)

\* importCoverImageFromID3v2Tag: the cover image after the call
importCoverImageFromID3v2Tag(coverArt, tag) ==
    LET frameList == FrameList(tag.frames, "APIC")
        pFrames == [i \in DOMAIN frameList |->
                       [type |-> frameList[i].type, data |-> frameList[i].picture]]
        image == FirstLoadableImage(
                     PicturesByType(pFrames, kPreferredID3v2PictureTypes) \o pFrames)
    IN  IF pFrames = <<>> \/ image = NullImage THEN coverArt ELSE image

\* a variant that expects a file name in front of the null byte
importCoverImageFromAPETag_Named(coverArt, tag) ==
    IF tag.apeCover.present
    THEN LET item == tag.apeCover.value
             pos == IndexOf(item, 0)
             image == loadImageFromByteVector(SubSeq(item, pos + 1, Len(item)))
         IN  IF pos > 1 /\ image # NullImage THEN image ELSE coverArt
    ELSE coverArt

\* importCoverImageFromAPETag
importCoverImageFromAPETag(coverArt, tag) ==
    IF tag.apeCover.present
    THEN LET item == tag.apeCover.value
             pos == IndexOf(item, 0)
             image == loadImageFromByteVector(SubSeq(item, pos + 1, Len(item)))
         IN  IF pos > 0 /\ image # NullImage THEN image ELSE coverArt
    ELSE coverArt

\* TagLib::FLAC::Picture::parse, reduced to the picture type (4 bytes), the
\* length of the data (4 bytes) and the data
FLAC_Picture_parse(rawData) ==
    IF Len(rawData) >= 8 /\ Len(rawData) = 8 + U32(SubSeq(rawData, 5, 8))
    THEN [ok |-> TRUE, type |-> U32(SubSeq(rawData, 1, 4)),
          data |-> SubSeq(rawData, 9, Len(rawData))]
    ELSE [ok |-> FALSE, type |-> 0, data |-> <<>>]

\* parseBase64EncodedVorbisCommentPicture
parseBase64EncodedVorbisCommentPicture(base64Encoded) ==
    FLAC_Picture_parse(fromBase64(base64Encoded).bytes)

\* parseBase64EncodedVorbisCommentImage
parseBase64EncodedVorbisCommentImage(base64Encoded) ==
    loadImageFromByteVector(fromBase64(base64Encoded).bytes)

\* a variant that tries COVERART before METADATA_BLOCK_PICTURE
importCoverImageFromVorbisCommentTag_CoverArtFirst(coverArt, tag) ==
    LET image == importCoverImageFromVorbisCommentPictureList(tag.pictures)
        base64EncodedList == tag.legacy.METADATA_BLOCK_PICTURE
        parsed == [i \in DOMAIN base64EncodedList |->
                      parseBase64EncodedVorbisCommentPicture(base64EncodedList[i])]
        parsedOk == {i \in DOMAIN parsed :
                        parsed[i].ok /\ loadImageFromByteVector(parsed[i].data) # NullImage}
        coverArtList == tag.legacy.COVERART
        coverArtOk == {i \in DOMAIN coverArtList :
                          parseBase64EncodedVorbisCommentImage(coverArtList[i]) # NullImage}
    IN  IF image # NullImage THEN image
        ELSE IF coverArtOk # {}
        THEN parseBase64EncodedVorbisCommentImage(coverArtList[MinOf(coverArtOk)])
        ELSE IF parsedOk # {} THEN loadImageFromByteVector(parsed[MinOf(parsedOk)].data)
        ELSE coverArt

\* importCoverImageFromVorbisCommentTag
importCoverImageFromVorbisCommentTag(coverArt, tag) ==
    LET image == importCoverImageFromVorbisCommentPictureList(tag.pictures)
        base64EncodedList == tag.legacy.METADATA_BLOCK_PICTURE
        parsed == [i \in DOMAIN base64EncodedList |->
                      parseBase64EncodedVorbisCommentPicture(base64EncodedList[i])]
        parsedOk == {i \in DOMAIN parsed :
                        parsed[i].ok /\ loadImageFromByteVector(parsed[i].data) # NullImage}
        coverArtList == tag.legacy.COVERART
        coverArtOk == {i \in DOMAIN coverArtList :
                          parseBase64EncodedVorbisCommentImage(coverArtList[i]) # NullImage}
    IN  IF image # NullImage THEN image
        ELSE IF parsedOk # {} THEN loadImageFromByteVector(parsed[MinOf(parsedOk)].data)
        ELSE IF coverArtOk # {}
        THEN parseBase64EncodedVorbisCommentImage(coverArtList[MinOf(coverArtOk)])
        ELSE coverArt

\* importCoverImageFromMP4Tag
importCoverImageFromMP4Tag(coverArt, tag) ==
    IF tag.atoms["covr"].type # "none"
    THEN LET coverArtList == tag.atoms["covr"].covers
             image == FirstLoadableImage(
                          [i \in DOMAIN coverArtList |-> [data |-> coverArtList[i]]])
         IN  IF image # NullImage THEN image ELSE coverArt
    ELSE coverArt

(***************************************************************************)
(* Import.  Each function gives the model after the call.                  *)
(***************************************************************************)
\* if (condition) { pTrackMetadata->set<Field>(value); }
SetFieldIf(condition, trackMetadata, field, value) ==
    IF condition THEN [trackMetadata EXCEPT ![field] = value] ELSE trackMetadata

\* if (condition) { setTrackNumber(actual); setTrackTotal(total); }
SetTrackNumbersIf(condition, trackMetadata, actual, total) ==
    IF condition
    THEN [trackMetadata EXCEPT !.trackNumber = actual, !.trackTotal = total]
    ELSE trackMetadata

\* if (condition) { parseBpm(pTrackMetadata, sBpm); }
parseBpmIf(condition, trackMetadata, sBpm) ==
    IF condition THEN parseBpm(trackMetadata, sBpm).tm ELSE trackMetadata

\* if (condition) { parseTrackGain(pTrackMetadata, dbGain); }
parseTrackGainIf(condition, trackMetadata, dbGain) ==
    IF condition THEN parseTrackGain(trackMetadata, dbGain).tm ELSE trackMetadata

\* if (condition) { parseTrackPeak(pTrackMetadata, strPeak); }
parseTrackPeakIf(condition, trackMetadata, strPeak) ==
    IF condition THEN parseTrackPeak(trackMetadata, strPeak).tm ELSE trackMetadata

\* a variant that stores the numeric year and track whatever their value
importTrackMetadataFromTag_Always(trackMetadata, tag) ==
    [trackMetadata EXCEPT !.title = tag.std.title,
                          !.artist = tag.std.artist,
                          !.album = tag.std.album,
                          !.comment = Tag_comment(tag),
                          !.genre = tag.std.genre,
                          !.year = Digits(Tag_year(tag)),
                          !.trackNumber = Digits(Tag_track(tag))]

\* importTrackMetadataFromTag
importTrackMetadataFromTag(trackMetadata, tag) ==
    LET iYear == Tag_year(tag)
        iTrack == Tag_track(tag)
        t1 == [trackMetadata EXCEPT !.title = tag.std.title,
                                    !.artist = tag.std.artist,
                                    !.album = tag.std.album,
                                    !.comment = Tag_comment(tag),
                                    !.genre = tag.std.genre]
        t2 == SetFieldIf(iYear > 0, t1, "year", Digits(iYear))
    IN  SetFieldIf(iTrack > 0, t2, "trackNumber", Digits(iTrack))

\* a variant of the loop that divides at most once
correctBpm_Once(bpmValue) ==
    IF bpmValue > Bpm_kValueMax THEN bpmValue \div 10 ELSE bpmValue

\* the loop of importTrackMetadataFromID3v2Tag that divides by 10
RECURSIVE correctBpm(_)
correctBpm(bpmValue) ==
    IF bpmValue > Bpm_kValueMax THEN correctBpm(bpmValue \div 10) ELSE bpmValue

\* importTrackMetadataFromID3v2Tag, the comment: the COMM frame with an empty
\* description, else the second field of the TXXX frame COMMENT.  outOfRange
\* is what reading the missing second field of a one-field frame yields.
importID3v2Comment(trackMetadata, frames, pCommentsFrame, pCommentFrame, outOfRange) ==
    IF pCommentsFrame # 0
    THEN [trackMetadata EXCEPT !.comment = FrameToString(frames[pCommentsFrame])]
    ELSE IF pCommentFrame # 0
    THEN [trackMetadata EXCEPT !.comment =
              IF Len(frames[pCommentFrame].fieldList) < 2 THEN outOfRange
              ELSE frames[pCommentFrame].fieldList[2]]
    ELSE trackMetadata

\* importTrackMetadataFromID3v2Tag, the original album title
importID3v2OriginalAlbum(trackMetadata, frames) ==
    IF trackMetadata.album = <<>>
    THEN [trackMetadata EXCEPT !.album =
              toQStringFirstNotEmpty_FrameList(FrameList(frames, "TOAL"))]
    ELSE trackMetadata

\* importTrackMetadataFromID3v2Tag, the year: TDRC for ID3v2.4.0, else TYER
\* with TDAT
importID3v2Year(trackMetadata, majorVersion, recordingTime, recordingYear, recordingDate) ==
    IF 4 <= majorVersion /\ recordingTime # <<>>
    THEN [trackMetadata EXCEPT !.year = recordingTime]
    ELSE IF recordingYear = <<>> THEN trackMetadata
    ELSE IF Len(recordingYear) = 4 /\ Len(recordingDate) = 4
            /\ DateFromYearDayMonth(recordingYear \o recordingDate).valid
    THEN [trackMetadata EXCEPT !.year =
              formatDate(DateFromYearDayMonth(recordingYear \o recordingDate))]
    ELSE [trackMetadata EXCEPT !.year = recordingYear]

\* importTrackMetadataFromID3v2Tag, the bpm with its correction
importID3v2Bpm(trackMetadata) ==
    [trackMetadata EXCEPT !.bpm = correctBpm(trackMetadata.bpm)]

\* the second field of a TXXX frame that has one, else the empty string
SecondField(frames, pFrame) ==
    IF pFrame # 0 /\ 2 <= Len(frames[pFrame].fieldList)
    THEN frames[pFrame].fieldList[2] ELSE <<>>

\* importTrackMetadataFromID3v2Tag.  outOfRange is what reading the missing
\* second field of a one-field TXXX frame yields; commentFault tells that
\* this read took place, headerFault that a missing header was dereferenced.
importTrackMetadataFromID3v2Tag(trackMetadata, tag, outOfRange) ==
    LET frames == tag.frames
        t0 == importTrackMetadataFromTag(trackMetadata, tag)
        pCommentsFrame == findFirstCommentsFrame(frames, <<>>, TRUE)
        pCommentFrame == findFirstUserTextIdentificationFrame(frames, COMMENT, TRUE)
        t1 == importID3v2Comment(t0, frames, pCommentsFrame, pCommentFrame, outOfRange)
        t2 == SetFieldIf(FrameList(frames, "TPE2") # <<>>, t1, "albumArtist",
                         toQStringFirstNotEmpty_FrameList(FrameList(frames, "TPE2")))
        t3 == importID3v2OriginalAlbum(t2, frames)
        t4 == SetFieldIf(FrameList(frames, "TCOM") # <<>>, t3, "composer",
                         toQStringFirstNotEmpty_FrameList(FrameList(frames, "TCOM")))
        t5 == SetFieldIf(FrameList(frames, "TIT1") # <<>>, t4, "grouping",
                         toQStringFirstNotEmpty_FrameList(FrameList(frames, "TIT1")))
        t6 == importID3v2Year(
                  t5, tag.header,
                  toQStringFirstNotEmpty_FrameList(FrameList(frames, "TDRC")),
                  Trimmed(toQStringFirstNotEmpty_FrameList(FrameList(frames, "TYER"))),
                  Trimmed(toQStringFirstNotEmpty_FrameList(FrameList(frames, "TDAT"))))
        trackNumbers ==
            splitString(toQStringFirstNotEmpty_FrameList(FrameList(frames, "TRCK")))
        t7 == SetTrackNumbersIf(FrameList(frames, "TRCK") # <<>>, t6,
                                trackNumbers.actual, trackNumbers.total)
        t8 == IF FrameList(frames, "TBPM") # <<>>
              THEN importID3v2Bpm(
                       parseBpm(t7, toQStringFirstNotEmpty_FrameList(
                                        FrameList(frames, "TBPM"))).tm)
              ELSE t7
        t9 == SetFieldIf(FrameList(frames, "TKEY") # <<>>, t8, "key",
                         toQStringFirstNotEmpty_FrameList(FrameList(frames, "TKEY")))
        pTrackGainFrame ==
            findFirstUserTextIdentificationFrame(frames, REPLAYGAIN_TRACK_GAIN, TRUE)
        t10 == parseTrackGainIf(
                   pTrackGainFrame # 0 /\ 2 <= Len(frames[pTrackGainFrame].fieldList),
                   t9, SecondField(frames, pTrackGainFrame))
        pTrackPeakFrame ==
            findFirstUserTextIdentificationFrame(frames, REPLAYGAIN_TRACK_PEAK, TRUE)
        t11 == parseTrackPeakIf(
                   pTrackPeakFrame # 0 /\ 2 <= Len(frames[pTrackPeakFrame].fieldList),
                   t10, SecondField(frames, pTrackPeakFrame))
    IN  [tm |-> t11,
         commentFault |-> /\ pCommentsFrame = 0
                          /\ pCommentFrame # 0
                          /\ Len(frames[pCommentFrame].fieldList) < 2,
         headerFault |-> tag.header = 0]

\* importTrackMetadataFromAPETag
importTrackMetadataFromAPETag(trackMetadata, tag) ==
    LET t0 == importTrackMetadataFromTag(trackMetadata, tag)
        albumArtist == readAPEItem(tag, "Album Artist")
        t1 == SetFieldIf(albumArtist.found, t0, "albumArtist", albumArtist.value)
        composer == readAPEItem(tag, "Composer")
        t2 == SetFieldIf(composer.found, t1, "composer", composer.value)
        grouping == readAPEItem(tag, "Grouping")
        t3 == SetFieldIf(grouping.found, t2, "grouping", grouping.value)
        year == readAPEItem(tag, "Year")
        t4 == SetFieldIf(year.found, t3, "year", year.value)
        trackNumber == readAPEItem(tag, "Track")
        trackNumbers == splitString(readAPEItem(tag, "Track").value)
        t5 == SetTrackNumbersIf(trackNumber.found, t4,
                                trackNumbers.actual, trackNumbers.total)
        bpm == readAPEItem(tag, "BPM")
        t6 == parseBpmIf(bpm.found, t5, bpm.value)
        trackGain == readAPEItem(tag, "REPLAYGAIN_TRACK_GAIN")
        t7 == parseTrackGainIf(trackGain.found, t6, trackGain.value)
        trackPeak == readAPEItem(tag, "REPLAYGAIN_TRACK_PEAK")
    IN  parseTrackPeakIf(trackPeak.found, t7, trackPeak.value)

\* the first of the fields that readXiphCommentField finds
FirstFoundXiphCommentField(tag, keys) ==
    LET found == {i \in DOMAIN keys : tag.fields[keys[i]] # <<>>}
    IN  IF found = {} THEN [found |-> FALSE, value |-> <<>>]
        ELSE readXiphCommentField(tag, keys[MinOf(found)])

\* a variant that keeps a total split off the TRACKNUMBER field
importXiphTrackNumbers_SplitFirst(trackMetadata, trackNumber, trackNumbers, trackTotal) ==
    IF trackNumber.found
    THEN [trackMetadata EXCEPT
              !.trackNumber = trackNumbers.actual,
              !.trackTotal = IF trackNumbers.total # <<>> THEN trackNumbers.total
                             ELSE trackTotal.value]
    ELSE trackMetadata

\* importTrackMetadataFromVorbisCommentTag, the track numbers: the total is
\* read only next to a TRACKNUMBER field
importXiphTrackNumbers(trackMetadata, trackNumber, trackNumbers, trackTotal) ==
    IF trackNumber.found
    THEN [trackMetadata EXCEPT
              !.trackNumber = trackNumbers.actual,
              !.trackTotal = IF trackTotal.found THEN trackTotal.value
                             ELSE trackNumbers.total]
    ELSE trackMetadata

\* importTrackMetadataFromVorbisCommentTag
importTrackMetadataFromVorbisCommentTag(trackMetadata, tag) ==
    LET t0 == importTrackMetadataFromTag(trackMetadata, tag)
        comment == readXiphCommentField(tag, "COMMENT")
        t1 == SetFieldIf(~readXiphCommentField(tag, "DESCRIPTION").found /\ comment.found,
                         t0, "comment", comment.value)
        albumArtist == FirstFoundXiphCommentField(
                           tag, << "ALBUMARTIST", "ALBUM_ARTIST", "ALBUM ARTIST", "ENSEMBLE" >>)
        t2 == SetFieldIf(albumArtist.found, t1, "albumArtist", albumArtist.value)
        composer == readXiphCommentField(tag, "COMPOSER")
        t3 == SetFieldIf(composer.found, t2, "composer", composer.value)
        grouping == readXiphCommentField(tag, "GROUPING")
        t4 == SetFieldIf(grouping.found, t3, "grouping", grouping.value)
        t5 == importXiphTrackNumbers(
                  t4, readXiphCommentField(tag, "TRACKNUMBER"),
                  splitString(readXiphCommentField(tag, "TRACKNUMBER").value),
                  FirstFoundXiphCommentField(tag, << "TRACKTOTAL", "TOTALTRACKS" >>))
        date == readXiphCommentField(tag, "DATE")
        t6 == SetFieldIf(date.found, t5, "year", date.value)
        bpm == FirstFoundXiphCommentField(tag, << "TEMPO", "BPM" >>)
        t7 == parseBpmIf(bpm.found, t6, bpm.value)
        trackGain == readXiphCommentField(tag, "REPLAYGAIN_TRACK_GAIN")
        t8 == parseTrackGainIf(trackGain.found, t7, trackGain.value)
        trackPeak == readXiphCommentField(tag, "REPLAYGAIN_TRACK_PEAK")
        t9 == parseTrackPeakIf(trackPeak.found, t8, trackPeak.value)
        key == FirstFoundXiphCommentField(tag, << "INITIALKEY", "KEY" >>)
    IN  SetFieldIf(key.found, t9, "key", key.value)

\* importTrackMetadataFromMP4Tag, the bpm: the freeform atom, else the
\* integer of tmpo when its declared type is TypeInteger
importMP4Bpm(trackMetadata, bpm, tmpo) ==
    IF bpm.found THEN parseBpm(trackMetadata, bpm.value).tm
    ELSE IF tmpo.type # "none" /\ tmpo.atomDataType = "TypeInteger"
    THEN [trackMetadata EXCEPT !.bpm = (IF tmpo.type = "int" THEN tmpo.first ELSE 0)
                                       * FixedPointScale]
    ELSE trackMetadata

\* importTrackMetadataFromMP4Tag, the key: initialkey, else KEY
importMP4Key(trackMetadata, initialkey, key) ==
    IF initialkey.found THEN [trackMetadata EXCEPT !.key = initialkey.value]
    ELSE IF key.found THEN [trackMetadata EXCEPT !.key = key.value]
    ELSE trackMetadata

\* importTrackMetadataFromMP4Tag
importTrackMetadataFromMP4Tag(trackMetadata, tag) ==
    LET t0 == importTrackMetadataFromTag(trackMetadata, tag)
        albumArtist == readMP4Atom(tag, "aART")
        t1 == SetFieldIf(albumArtist.found, t0, "albumArtist", albumArtist.value)
        composer == readMP4Atom(tag, "(c)wrt")
        t2 == SetFieldIf(composer.found, t1, "composer", composer.value)
        grouping == readMP4Atom(tag, "(c)grp")
        t3 == SetFieldIf(grouping.found, t2, "grouping", grouping.value)
        year == readMP4Atom(tag, "(c)day")
        t4 == SetFieldIf(year.found, t3, "year", year.value)
        trackNumbers == toStrings(tag.atoms["trkn"].first, tag.atoms["trkn"].second)
        t5 == SetTrackNumbersIf(tag.atoms["trkn"].type # "none", t4,
                                trackNumbers.actual, trackNumbers.total)
        t6 == importMP4Bpm(t5, readMP4Atom(tag, "----:com.apple.iTunes:BPM"),
                           tag.atoms["tmpo"])
        trackGain == readMP4Atom(tag, "----:com.apple.iTunes:replaygain_track_gain")
        t7 == parseTrackGainIf(trackGain.found, t6, trackGain.value)
        trackPeak == readMP4Atom(tag, "----:com.apple.iTunes:replaygain_track_peak")
        t8 == parseTrackPeakIf(trackPeak.found, t7, trackPeak.value)
    IN  importMP4Key(t8, readMP4Atom(tag, "----:com.apple.iTunes:initialkey"),
                     readMP4Atom(tag, "----:com.apple.iTunes:KEY"))

\* importTrackMetadataFromRIFFTag
importTrackMetadataFromRIFFTag(trackMetadata, tag) ==
    LET iYear == Tag_year(tag)
        iTrack == Tag_track(tag)
        t1 == [trackMetadata EXCEPT !.title = tag.std.title,
                                    !.artist = tag.std.artist,
                                    !.album = tag.std.album,
                                    !.comment = Tag_comment(tag),
                                    !.genre = tag.std.genre]
        t2 == SetFieldIf(iYear > 0, t1, "year", Digits(iYear))
    IN  SetFieldIf(iTrack > 0, t2, "trackNumber", Digits(iTrack))


(***************************************************************************)
(* Export.  Each adapter gives its result and the tag after the call.      *)
(***************************************************************************)
WRITE_TAG_OMIT_NONE == {}
WRITE_TAG_OMIT_TRACK_NUMBER == {"TRACK_NUMBER"}
WRITE_TAG_OMIT_YEAR == {"YEAR"}
WRITE_TAG_OMIT_COMMENT == {"COMMENT"}

\* exportTrackMetadataIntoTag, the year
exportYearIntoTag(tag, yearDate, writeMask) ==
    IF writeMask \cap WRITE_TAG_OMIT_YEAR = {} /\ yearDate.valid
    THEN Tag_setYear(tag, yearDate.year) ELSE tag

\* exportTrackMetadataIntoTag, the track number
exportTrackNumberIntoTag(tag, parsedTrackNumbers, writeMask) ==
    IF writeMask \cap WRITE_TAG_OMIT_TRACK_NUMBER = {}
       /\ parsedTrackNumbers.result = "VALID"
    THEN Tag_setTrack(tag, parsedTrackNumbers.actual) ELSE tag

\* exportTrackMetadataIntoTag
exportTrackMetadataIntoTag(tag, trackMetadata, writeMask) ==
    LET t1 == [tag EXCEPT !.std = [title |-> trackMetadata.title,
                                   artist |-> trackMetadata.artist,
                                   album |-> trackMetadata.album,
                                   genre |-> trackMetadata.genre]]
        t2 == IF writeMask \cap WRITE_TAG_OMIT_COMMENT = {}
              THEN Tag_setComment(t1, trackMetadata.comment) ELSE t1
        t3 == exportYearIntoTag(t2, parseDate(trackMetadata.year), writeMask)
    IN  exportTrackNumberIntoTag(t3, parseFromString(trackMetadata.trackNumber), writeMask)

\* a variant that accepts every tag with a header
IsSupportedID3v2Version_Any(majorVersion) == majorVersion >= 1

\* the test on the header of exportTrackMetadataIntoID3v2Tag
IsSupportedID3v2Version(majorVersion) == ~(majorVersion = 0 \/ 3 > majorVersion)

\* exportTrackMetadataIntoID3v2Tag, TDRC: written for ID3v2.4.0 and wherever
\* the frame exists
exportID3v2RecordingTime(frames, majorVersion, year) ==
    IF 4 <= majorVersion \/ FrameList(frames, "TDRC") # <<>>
    THEN writeID3v2TextIdentificationFrame(frames, "TDRC", year)
    ELSE frames

\* exportTrackMetadataIntoID3v2Tag, TYER and TDAT: written before ID3v2.4.0
exportID3v2YearAndDate(frames, majorVersion, date, calendarYear) ==
    IF 4 > majorVersion
    THEN IF date.valid
         THEN writeID3v2TextIdentificationFrame(
                  writeID3v2TextIdentificationFrame(frames, "TYER", ID3V2_TYER_FORMAT(date)),
                  "TDAT", ID3V2_TDAT_FORMAT(date))
         ELSE IF calendarYear.valid
         THEN writeID3v2TextIdentificationFrame(frames, "TYER", calendarYear.text)
         ELSE frames
    ELSE frames

\* exportTrackMetadataIntoID3v2Tag, the frames it writes after the generic
\* fields
exportID3v2Frames(frames, majorVersion, trackMetadata) ==
    LET f1 == writeID3v2CommentsFrame(frames, trackMetadata.comment, <<>>)
        f2 == writeID3v2TextIdentificationFrame(
                  f1, "TRCK",
                  joinStrings(trackMetadata.trackNumber, trackMetadata.trackTotal))
        f3 == exportID3v2RecordingTime(f2, majorVersion, trackMetadata.year)
        f4 == exportID3v2YearAndDate(f3, majorVersion, parseDate(trackMetadata.year),
                                     formatCalendarYear(trackMetadata.year))
        f5 == writeID3v2TextIdentificationFrame(f4, "TPE2", trackMetadata.albumArtist)
        f6 == writeID3v2TextIdentificationFrame(f5, "TCOM", trackMetadata.composer)
        f7 == writeID3v2TextIdentificationFrame(f6, "TIT1", trackMetadata.grouping)
        f8 == writeID3v2TextIdentificationFrame(f7, "TBPM", formatBpmInteger(trackMetadata))
        f9 == writeID3v2TextIdentificationFrame(f8, "TKEY", trackMetadata.key)
        f10 == writeID3v2UserTextIdentificationFrame(
                   f9, formatTrackGain(trackMetadata), REPLAYGAIN_TRACK_GAIN)
    IN  writeID3v2UserTextIdentificationFrame(
            f10, formatTrackPeak(trackMetadata), REPLAYGAIN_TRACK_PEAK)

\* the tag with its frames replaced by those the export writes
WithExportedID3v2Frames(tag, trackMetadata) ==
    [tag EXCEPT !.frames = exportID3v2Frames(tag.frames, tag.header, trackMetadata)]

\* exportTrackMetadataIntoID3v2Tag
exportTrackMetadataIntoID3v2Tag(pTagNull, tag, trackMetadata) ==
    IF pTagNull THEN [ret |-> FALSE, tag |-> tag]
    ELSE IF ~IsSupportedID3v2Version(tag.header) THEN [ret |-> FALSE, tag |-> tag]
    ELSE [ret |-> TRUE,
          tag |-> WithExportedID3v2Frames(
                      exportTrackMetadataIntoTag(
                          tag, trackMetadata,
                          WRITE_TAG_OMIT_TRACK_NUMBER \cup WRITE_TAG_OMIT_YEAR
                              \cup WRITE_TAG_OMIT_COMMENT),
                      trackMetadata)]

\* exportTrackMetadataIntoAPETag, the items it writes
exportAPEItems(tag, trackMetadata) ==
    LET t0 == exportTrackMetadataIntoTag(
                  tag, trackMetadata,
                  WRITE_TAG_OMIT_TRACK_NUMBER \cup WRITE_TAG_OMIT_YEAR)
        t1 == writeAPEItem(t0, "Track",
                  joinStrings(trackMetadata.trackNumber, trackMetadata.trackTotal))
        t2 == writeAPEItem(t1, "Year", trackMetadata.year)
        t3 == writeAPEItem(t2, "Album Artist", trackMetadata.albumArtist)
        t4 == writeAPEItem(t3, "Composer", trackMetadata.composer)
        t5 == writeAPEItem(t4, "Grouping", trackMetadata.grouping)
        t6 == writeAPEItem(t5, "BPM", formatBpm(trackMetadata))
        t7 == writeAPEItem(t6, "REPLAYGAIN_TRACK_GAIN", formatTrackGain(trackMetadata))
    IN  writeAPEItem(t7, "REPLAYGAIN_TRACK_PEAK", formatTrackPeak(trackMetadata))

\* a variant that does not test pTag
exportTrackMetadataIntoAPETag_NoNullCheck(pTagNull, tag, trackMetadata) ==
    [ret |-> TRUE, tag |-> exportAPEItems(tag, trackMetadata)]

\* exportTrackMetadataIntoAPETag
exportTrackMetadataIntoAPETag(pTagNull, tag, trackMetadata) ==
    IF pTagNull THEN [ret |-> FALSE, tag |-> tag]
    ELSE [ret |-> TRUE, tag |-> exportAPEItems(tag, trackMetadata)]

\* exportTrackMetadataIntoXiphComment
exportTrackMetadataIntoXiphComment(pTagNull, tag, trackMetadata) ==
    IF pTagNull THEN [ret |-> FALSE, tag |-> tag]
    ELSE
    LET t0 == exportTrackMetadataIntoTag(
                  tag, trackMetadata,
                  WRITE_TAG_OMIT_TRACK_NUMBER \cup WRITE_TAG_OMIT_YEAR)
        t1 == writeXiphCommentField(t0, "DATE", trackMetadata.year)
        t2 == writeXiphCommentField(t1, "COMPOSER", trackMetadata.composer)
        t3 == writeXiphCommentField(t2, "GROUPING", trackMetadata.grouping)
        t4 == writeXiphCommentField(t3, "TRACKNUMBER", trackMetadata.trackNumber)
        t5 == writeXiphCommentField(t4, "REPLAYGAIN_TRACK_GAIN", formatTrackGain(trackMetadata))
        t6 == writeXiphCommentField(t5, "REPLAYGAIN_TRACK_PEAK", formatTrackPeak(trackMetadata))
        t7 == writeXiphCommentField(t6, "TRACKTOTAL", trackMetadata.trackTotal)
        t8 == updateXiphCommentField(t7, "TOTALTRACKS", trackMetadata.trackTotal)
        t9 == writeXiphCommentField(t8, "ALBUMARTIST", trackMetadata.albumArtist)
        t10 == updateXiphCommentField(t9, "ALBUM_ARTIST", trackMetadata.albumArtist)
        t11 == updateXiphCommentField(t10, "ALBUM ARTIST", trackMetadata.albumArtist)
        t12 == updateXiphCommentField(t11, "ENSEMBLE", trackMetadata.albumArtist)
        t13 == writeXiphCommentField(t12, "TEMPO", formatBpm(trackMetadata))
        t14 == updateXiphCommentField(t13, "BPM", formatBpm(trackMetadata))
        t15 == writeXiphCommentField(t14, "INITIALKEY", trackMetadata.key)
        t16 == updateXiphCommentField(t15, "KEY", trackMetadata.key)
    IN  [ret |-> TRUE, tag |-> t16]

\* a variant that removes the atom trkn when the numbers do not parse
exportMP4TrackNumbers_Removing(tag, parsedTrackNumbers) ==
    IF parsedTrackNumbers.result = "VALID"
    THEN [tag EXCEPT !.atoms["trkn"] =
              IntPairItem(parsedTrackNumbers.actual, parsedTrackNumbers.total)]
    ELSE [tag EXCEPT !.atoms["trkn"] = NoItem]

\* exportTrackMetadataIntoMP4Tag, the atom trkn
exportMP4TrackNumbers(tag, parsedTrackNumbers) ==
    IF parsedTrackNumbers.result = "EMPTY"
    THEN [tag EXCEPT !.atoms["trkn"] = NoItem]
    ELSE IF parsedTrackNumbers.result = "VALID"
    THEN [tag EXCEPT !.atoms["trkn"] =
              IntPairItem(parsedTrackNumbers.actual, parsedTrackNumbers.total)]
    ELSE tag

\* a variant that keeps the atom tmpo for a bpm without value
exportMP4Tempo_Keeping(tag, bpm) ==
    IF Bpm_hasValue(bpm)
    THEN [tag EXCEPT !.atoms["tmpo"] = IntItem(Bpm_valueToInteger(bpm), "TypeUndefined")]
    ELSE tag

\* exportTrackMetadataIntoMP4Tag, the atom tmpo
exportMP4Tempo(tag, bpm) ==
    IF Bpm_hasValue(bpm)
    THEN [tag EXCEPT !.atoms["tmpo"] = IntItem(Bpm_valueToInteger(bpm), "TypeUndefined")]
    ELSE [tag EXCEPT !.atoms["tmpo"] = NoItem]

\* exportTrackMetadataIntoMP4Tag
exportTrackMetadataIntoMP4Tag(pTagNull, tag, trackMetadata) ==
    IF pTagNull THEN [ret |-> FALSE, tag |-> tag]
    ELSE
    LET t0 == exportTrackMetadataIntoTag(
                  tag, trackMetadata,
                  WRITE_TAG_OMIT_TRACK_NUMBER \cup WRITE_TAG_OMIT_YEAR)
        t1 == exportMP4TrackNumbers(
                  t0, parseFromStrings(trackMetadata.trackNumber, trackMetadata.trackTotal))
        t2 == writeMP4Atom(t1, "(c)day", trackMetadata.year)
        t3 == writeMP4Atom(t2, "aART", trackMetadata.albumArtist)
        t4 == writeMP4Atom(t3, "(c)wrt", trackMetadata.composer)
        t5 == writeMP4Atom(t4, "(c)grp", trackMetadata.grouping)
        t6 == exportMP4Tempo(t5, trackMetadata.bpm)
        t7 == writeMP4Atom(t6, "----:com.apple.iTunes:BPM", formatBpm(trackMetadata))
        t8 == writeMP4Atom(t7, "----:com.apple.iTunes:replaygain_track_gain",
                           formatTrackGain(trackMetadata))
        t9 == writeMP4Atom(t8, "----:com.apple.iTunes:replaygain_track_peak",
                           formatTrackPeak(trackMetadata))
        t10 == writeMP4Atom(t9, "----:com.apple.iTunes:initialkey", trackMetadata.key)
        t11 == updateMP4Atom(t10, "----:com.apple.iTunes:KEY", trackMetadata.key)
    IN  [ret |-> TRUE, tag |-> t11]

(***************************************************************************)
(* The callers of the adapters.  A caller holds one tag with prior         *)
(* contents, a fresh metadata model and a null cover image; it exports a   *)
(* model into the tag at most once and then reads the tag, the cover art   *)
(* or the audio properties once.  exported remembers the export, call the  *)
(* last call and pre the state before the last call.                       *)
(***************************************************************************)
P == << "p" >>
Q == << "q" >>
iTunSMPB == << "i", "T", "u", "n", "S", "M", "P", "B" >>
comment_LowerCase == << "c", "o", "m", "m", "e", "n", "t" >>

\* Which of albumArtist, composer, grouping and key a source model sets:
\* none, all, and two mixed patterns, so that every field is exported both
\* empty and non-empty next to set and unset neighbours
TextFieldPatterns ==
    { [albumArtist |-> a, composer |-> c, grouping |-> a, key |-> c] :
        a \in BOOLEAN, c \in BOOLEAN }

\* The models a caller exports: the patterns of albumArtist, composer,
\* grouping and key, every combination of empty and non-empty trackNumber,
\* trackTotal and comment, the remaining fields all unset or all set
SourceModels ==
    { [TrackMetadata EXCEPT
          !.albumArtist = IF text.albumArtist THEN << "a" >> ELSE <<>>,
          !.composer = IF text.composer THEN << "c" >> ELSE <<>>,
          !.grouping = IF text.grouping THEN << "g" >> ELSE <<>>,
          !.key = IF text.key THEN << "A", "m" >> ELSE <<>>,
          !.trackNumber = trackNumber, !.trackTotal = trackTotal,
          !.comment = comment,
          !.title = IF rest THEN << "t" >> ELSE <<>>,
          !.artist = IF rest THEN << "r" >> ELSE <<>>,
          !.album = IF rest THEN << "l" >> ELSE <<>>,
          !.genre = IF rest THEN << "e" >> ELSE <<>>,
          !.year = IF rest THEN << "1", "9", "9", "9", "-", "0", "6", "-", "0", "1" >>
                   ELSE <<>>,
          !.bpm = IF rest THEN 128 * FixedPointScale + FixedPointScale \div 2
                  ELSE Bpm_kValueUndefined,
          !.replayGain = IF rest
                         THEN [ratio |-> [defined |-> TRUE, db |-> 0 - 3 * FixedPointScale],
                               peak |-> FixedPointScale \div 2]
                         ELSE TrackMetadata.replayGain] :
        text \in TextFieldPatterns,
        trackNumber \in {<<>>, << "3" >>},
        trackTotal \in {<<>>, << "1", "2" >>},
        comment \in {<<>>, << "n" >>},
        rest \in BOOLEAN }

\* the prior value of a text frame, item, field or atom
PriorValue(key) ==
    IF key \in {"TYER", "TDRC", "Year", "DATE", "(c)day"} THEN << "1", "9", "8", "4" >>
    ELSE IF key = "TDAT" THEN << "0", "2", "0", "3" >>
    ELSE IF key \in {"TRCK", "Track"} THEN << "7", "/", "9" >>
    ELSE IF key = "TRACKNUMBER" THEN << "7" >>
    ELSE IF key \in {"TRACKTOTAL", "TOTALTRACKS"} THEN << "9" >>
    ELSE IF key \in {"TBPM", "BPM", "TEMPO", "----:com.apple.iTunes:BPM"}
    THEN << "9", "9" >>
    ELSE IF key \in {"REPLAYGAIN_TRACK_GAIN", "----:com.apple.iTunes:replaygain_track_gain"}
    THEN << "-", "1", " ", "d", "B" >>
    ELSE IF key \in {"REPLAYGAIN_TRACK_PEAK", "----:com.apple.iTunes:replaygain_track_peak"}
    THEN << "0", ".", "5" >>
    ELSE P

PriorStd == [title |-> P, artist |-> P, album |-> P, genre |-> P]

\* picture data: one that decodes and one that does not
DecodablePicture == << kImageMagic, 1 >>
UndecodablePicture == << 0, 1 >>

CommentsFrameSamples == {CommentsFrame(<<>>, P), CommentsFrame(<<>>, Q)}

MaxCommentsFrames == 2

PriorFrameLists ==
    SeqsUpTo(CommentsFrameSamples, MaxCommentsFrames)
    \cup { << UserTextIdentificationFrame(<< COMMENT, P >>) >>,
           << UserTextIdentificationFrame(<< COMMENT >>) >>,
           << CommentsFrame(iTunSMPB, << "s" >>),
              UserTextIdentificationFrame(<< comment_LowerCase, P >>),
              UserTextIdentificationFrame(<< COMMENT, Q >>) >>,
           << TextIdentificationFrame("TPE2", PriorValue("TPE2")),
              TextIdentificationFrame("TCOM", PriorValue("TCOM")),
              TextIdentificationFrame("TIT1", PriorValue("TIT1")),
              TextIdentificationFrame("TKEY", PriorValue("TKEY")),
              TextIdentificationFrame("TRCK", PriorValue("TRCK")),
              TextIdentificationFrame("TBPM", PriorValue("TBPM")),
              TextIdentificationFrame("TYER", PriorValue("TYER")),
              TextIdentificationFrame("TDAT", PriorValue("TDAT")),
              TextIdentificationFrame("TDRC", PriorValue("TDRC")),
              UserTextIdentificationFrame(
                  << REPLAYGAIN_TRACK_GAIN, PriorValue("REPLAYGAIN_TRACK_GAIN") >>),
              UserTextIdentificationFrame(
                  << REPLAYGAIN_TRACK_PEAK, PriorValue("REPLAYGAIN_TRACK_PEAK") >>) >>,
           << TextIdentificationFrame("TPE2", P), TextIdentificationFrame("TPE2", Q),
              TextIdentificationFrame("TKEY", <<>>), TextIdentificationFrame("TKEY", Q) >>,
           << AttachedPictureFrame("FrontCover", UndecodablePicture),
              AttachedPictureFrame("Other", DecodablePicture) >> }

ID3v2Versions == {0, 2, 3, 4}

PriorID3v2Tags ==
    { [EmptyTag("ID3v2") EXCEPT !.header = majorVersion, !.frames = frames,
                                !.std = IF frames = <<>> THEN EmptyStd ELSE PriorStd] :
        majorVersion \in ID3v2Versions, frames \in PriorFrameLists }

PriorAPETags ==
    { EmptyTag("APE"),
      [EmptyTag("APE") EXCEPT !.std = PriorStd,
                              !.fields = [k \in APEKeys |-> << PriorValue(k) >>]],
      [EmptyTag("APE") EXCEPT
          !.apeCover = [present |-> TRUE, value |-> << 102, 0 >> \o DecodablePicture]] }

XiphAlternativeKeys ==
    {"TOTALTRACKS", "ALBUM_ARTIST", "ALBUM ARTIST", "ENSEMBLE", "BPM", "KEY", "COMMENT"}

PriorXiphKeySets ==
    {{}} \cup {{k} : k \in XiphAlternativeKeys} \cup {XiphAlternativeKeys, XiphKeys}

PriorXiphTags ==
    { [EmptyTag("Xiph") EXCEPT
          !.std = IF keys = {} THEN EmptyStd ELSE PriorStd,
          !.fields = [k \in XiphKeys |-> IF k \in keys THEN << PriorValue(k) >> ELSE <<>>]] :
        keys \in PriorXiphKeySets }
    \cup { [EmptyTag("Xiph") EXCEPT
               !.fields["ALBUMARTIST"] = << <<>> >>,
               !.fields["ALBUM_ARTIST"] = << P >>],
           [EmptyTag("Xiph") EXCEPT
               !.pictures = << [type |-> "Illustration", data |-> DecodablePicture] >>],
           [EmptyTag("Xiph") EXCEPT
               !.legacy.METADATA_BLOCK_PICTURE =
                   << toBase64(BE32(3) \o BE32(2) \o DecodablePicture) >>,
               !.legacy.COVERART = << toBase64(DecodablePicture) >>] }

PriorMP4Tags ==
    { EmptyTag("MP4"),
      [EmptyTag("MP4") EXCEPT
          !.atoms["----:com.apple.iTunes:KEY"] = StringListItem(<< P >>)],
      [EmptyTag("MP4") EXCEPT
          !.std = PriorStd,
          !.atoms = [k \in MP4Keys |->
                        IF k = "trkn" THEN IntPairItem(7, 9)
                        ELSE IF k = "tmpo" THEN IntItem(99, "TypeInteger")
                        ELSE IF k = "covr"
                        THEN CoverArtListItem(<< UndecodablePicture, DecodablePicture >>)
                        ELSE StringListItem(<< PriorValue(k) >>)]] }

PriorRIFFTags ==
    { EmptyTag("RIFF"),
      [EmptyTag("RIFF") EXCEPT !.std = PriorStd,
                               !.info = [comment |-> P, year |-> 1984, track |-> 7]] }

PriorTags ==
    PriorID3v2Tags \cup PriorAPETags \cup PriorXiphTags \cup PriorMP4Tags \cup PriorRIFFTags

\* what the read of a missing list element can yield: the process ends, or
\* the read gives some string
OutOfRangeReads ==
    {[crash |-> TRUE, value |-> <<>>], [crash |-> FALSE, value |-> <<>>],
     [crash |-> FALSE, value |-> << "?" >>]}

\* the files readAudioProperties is called with
AudioProperties ==
    [channels |-> 2, sampleRate |-> 44100, bitrate |-> 320, lengthInMilliseconds |-> 1500]

FileSamples ==
    {[isValid |-> v, hasAudioProperties |-> a, audioProperties |-> AudioProperties] :
        v \in BOOLEAN, a \in BOOLEAN}

NoCall ==
    [op |-> "none", nullArg |-> FALSE, ret |-> "none", tagRead |-> FALSE,
     fileValid |-> FALSE]

Call(op, nullArg, ret, tagRead) ==
    [op |-> op, nullArg |-> nullArg, ret |-> ret, tagRead |-> tagRead,
     fileValid |-> FALSE]

\* the adapters at rest, for the behaviours of the SeratoBeatGrid machine
TagsIdle ==
    /\ fileTag = EmptyTag("RIFF")
    /\ tm = TrackMetadata
    /\ cover = NullImage
    /\ tPc = "start"
    /\ exported = [done |-> FALSE, ret |-> FALSE, pTagNull |-> FALSE,
                   source |-> TrackMetadata, into |-> EmptyTag("RIFF")]
    /\ call = NoCall
    /\ pre = [tag |-> EmptyTag("RIFF"), tm |-> TrackMetadata, cover |-> NullImage]


(***************************************************************************)
(* The SeratoBeatGrid machine: a caller that builds a grid, dumps it,      *)
(* damages or keeps the bytes, parses them into one of its two grids and   *)
(* compares the grids.                                                     *)
(***************************************************************************)
BoolStr(b) == IF b THEN "true" ELSE "false"

NoParse == [ret |-> "none", fileType |-> "UNKNOWN", target |-> "none", wellFormed |-> FALSE]

InitBeatGrid ==
    /\ grid \in {DefaultSeratoBeatGrid(f) : f \in FooterSamples}
    /\ grid2 \in {DefaultSeratoBeatGrid(f) : f \in FooterSamples}
    /\ data = <<>>
    /\ fileType = "UNKNOWN"
    /\ bgPc = "build"
    /\ bgRet = NoParse
    /\ bgPre = DefaultSeratoBeatGrid(0)
    /\ eqRet = "none"
    /\ TagsIdle

\* grid = SeratoBeatGrid(pTerminalMarker, nonTerminalMarkers) with markers
\* the caller has just created; hasTerminal FALSE hands over an empty pointer
Construct(hasTerminal, t, nts) ==
    /\ bgPc = "build"
    /\ LET live == Addrs(grid) \cup Addrs(grid2)
           ptrs == MakeNonTerminalMarkers(nts, live)
           term == IF hasTerminal THEN MakeTerminalMarker(t, live, Len(nts) + 1)
                   ELSE NullTerminalMarker
           g == SeratoBeatGrid(term, ptrs)
       IN  /\ grid' = RenumberGrid(g, AddrOrder(g, grid2))
           /\ grid2' = RenumberGrid(grid2, AddrOrder(g, grid2))
    /\ eqRet' = "none"
    /\ UNCHANGED <<data, fileType, bgPc, bgRet, bgPre>>
    /\ UNCHANGED tagVars

SetNonTerminalMarkers(nts) ==
    /\ bgPc = "build"
    /\ LET g == setNonTerminalMarkers(
                    grid, MakeNonTerminalMarkers(nts, Addrs(grid) \cup Addrs(grid2)))
       IN  /\ grid' = RenumberGrid(g, AddrOrder(g, grid2))
           /\ grid2' = RenumberGrid(grid2, AddrOrder(g, grid2))
    /\ eqRet' = "none"
    /\ UNCHANGED <<data, fileType, bgPc, bgRet, bgPre>>
    /\ UNCHANGED tagVars

SetTerminalMarker(hasTerminal, t) ==
    /\ bgPc = "build"
    /\ LET g == setTerminalMarker(
                    grid,
                    IF hasTerminal
                    THEN MakeTerminalMarker(t, Addrs(grid) \cup Addrs(grid2), 1)
                    ELSE NullTerminalMarker)
       IN  /\ grid' = RenumberGrid(g, AddrOrder(g, grid2))
           /\ grid2' = RenumberGrid(grid2, AddrOrder(g, grid2))
    /\ eqRet' = "none"
    /\ UNCHANGED <<data, fileType, bgPc, bgRet, bgPre>>
    /\ UNCHANGED tagVars

SetFooter(f) ==
    /\ bgPc = "build"
    /\ grid' = setFooter(grid, f)
    /\ eqRet' = "none"
    /\ UNCHANGED <<grid2, data, fileType, bgPc, bgRet, bgPre>>
    /\ UNCHANGED tagVars

\* grid2 = grid: the copy shares the marker objects
CopyGrid ==
    /\ bgPc = "build"
    /\ grid2' = grid
    /\ bgPc' = "copied"
    /\ eqRet' = "none"
    /\ UNCHANGED <<grid, data, fileType, bgRet, bgPre>>
    /\ UNCHANGED tagVars

\* grid.setFooter(f) while grid2 is a copy of grid
SetFooterOfOriginal(f) ==
    /\ bgPc = "copied"
    /\ grid' = setFooter(grid, f)
    /\ eqRet' = "none"
    /\ UNCHANGED <<grid2, data, fileType, bgPc, bgRet, bgPre>>
    /\ UNCHANGED tagVars

\* grid == grid2
Compare ==
    /\ bgPc \in {"copied", "parsed"}
    /\ eqRet = "none"
    /\ eqRet' = BoolStr(OperatorEq(grid, grid2))
    /\ UNCHANGED <<grid, grid2, data, fileType, bgPc, bgRet, bgPre>>
    /\ UNCHANGED tagVars

\* data = grid.dump(fileType)
Dump(f) ==
    /\ bgPc = "build"
    /\ data' = dump(grid, f)
    /\ fileType' = f
    /\ bgPc' = "dumped"
    /\ UNCHANGED <<grid, grid2, bgRet, bgPre, eqRet>>
    /\ UNCHANGED tagVars

\* The bytes as they come back from a damaged container field: the last k
\* bytes missing, one byte too many, or the first byte overwritten
Truncate(k) ==
    /\ bgPc = "dumped"
    /\ data = dump(grid, fileType)
    /\ k <= Len(data)
    /\ data' = SubSeq(data, 1, Len(data) - k)
    /\ UNCHANGED <<grid, grid2, fileType, bgPc, bgRet, bgPre, eqRet>>
    /\ UNCHANGED tagVars

Extend ==
    /\ bgPc = "dumped"
    /\ data = dump(grid, fileType)
    /\ data' = Append(data, 65)
    /\ UNCHANGED <<grid, grid2, fileType, bgPc, bgRet, bgPre, eqRet>>
    /\ UNCHANGED tagVars

Garble ==
    /\ bgPc = "dumped"
    /\ data = dump(grid, fileType)
    /\ data' = [data EXCEPT ![1] = 255]
    /\ UNCHANGED <<grid, grid2, fileType, bgPc, bgRet, bgPre, eqRet>>
    /\ UNCHANGED tagVars

\* The families a caller passes to parse besides the one the bytes were
\* dumped for: one of each encoding
MismatchSamples == {"MP3", "OGG"}

\* SeratoBeatGrid::parse(&target, data, f), target being grid or grid2
Parse(target, f) ==
    /\ bgPc = "dumped"
    /\ f \in {fileType} \cup MismatchSamples
    /\ LET g == IF target = "grid" THEN grid ELSE grid2
           r == parse(g, data, f, Addrs(grid) \cup Addrs(grid2))
           g1 == IF target = "grid" THEN r.grid ELSE grid
           g2 == IF target = "grid" THEN grid2 ELSE r.grid
       IN  /\ bgRet' = [ret |-> BoolStr(r.ret), fileType |-> f, target |-> target,
                        wellFormed |-> (data = dump(grid, f))]
           /\ bgPre' = g
           /\ grid' = RenumberGrid(g1, AddrOrder(g1, g2))
           /\ grid2' = RenumberGrid(g2, AddrOrder(g1, g2))
    /\ bgPc' = "parsed"
    /\ eqRet' = "none"
    /\ UNCHANGED <<data, fileType>>
    /\ UNCHANGED tagVars

\* The caller drops the bytes and starts over with a new second grid
Discard ==
    /\ bgPc \in {"copied", "dumped", "parsed"}
    /\ \E f \in FooterSamples : grid2' = DefaultSeratoBeatGrid(f)
    /\ data' = <<>>
    /\ fileType' = "UNKNOWN"
    /\ bgPc' = "build"
    /\ bgRet' = NoParse
    /\ bgPre' = DefaultSeratoBeatGrid(0)
    /\ eqRet' = "none"
    /\ UNCHANGED grid
    /\ UNCHANGED tagVars

NextBeatGrid ==
    \/ \E h \in BOOLEAN, t \in TerminalValues,
          nts \in SeqsUpTo(NonTerminalValues, MaxMarkers) : Construct(h, t, nts)
    \/ \E nts \in SeqsUpTo(NonTerminalValues, MaxMarkers) : SetNonTerminalMarkers(nts)
    \/ \E h \in BOOLEAN, t \in TerminalValues : SetTerminalMarker(h, t)
    \/ \E f \in FooterSamples : SetFooter(f)
    \/ CopyGrid
    \/ \E f \in FooterSamples : SetFooterOfOriginal(f)
    \/ Compare
    \/ \E f \in ContainerFamilies : Dump(f)
    \/ \E k \in 1..(kMarkerSizeID3 + 1) : Truncate(k)
    \/ Extend
    \/ Garble
    \/ \E target \in {"grid", "grid2"}, f \in ContainerFamilies : Parse(target, f)
    \/ Discard

SpecBeatGrid == InitBeatGrid /\ [][NextBeatGrid]_vars


\* the beat grid at rest, for the behaviours of the adapters
BeatGridIdle ==
    /\ grid = DefaultSeratoBeatGrid(0)
    /\ grid2 = DefaultSeratoBeatGrid(0)
    /\ data = <<>>
    /\ fileType = "UNKNOWN"
    /\ bgPc = "build"
    /\ bgRet = NoParse
    /\ bgPre = DefaultSeratoBeatGrid(0)
    /\ eqRet = "none"

Init ==
    /\ fileTag \in PriorTags
    /\ tm = TrackMetadata
    /\ cover = NullImage
    /\ tPc = "start"
    /\ exported = [done |-> FALSE, ret |-> FALSE, pTagNull |-> FALSE,
                   source |-> TrackMetadata, into |-> fileTag]
    /\ call = NoCall
    /\ pre = [tag |-> fileTag, tm |-> tm, cover |-> cover]
    /\ BeatGridIdle

\* the caller after an export: the tag, the record of the export and of the
\* call
Exported(result, pTagNull, trackMetadata) ==
    /\ fileTag' = result.tag
    /\ exported' = [done |-> TRUE, ret |-> result.ret, pTagNull |-> pTagNull,
                    source |-> trackMetadata, into |-> fileTag]
    /\ call' = Call("export", pTagNull, BoolStr(result.ret), ~pTagNull)
    /\ pre' = [tag |-> fileTag, tm |-> tm, cover |-> cover]
    /\ tPc' = "exported"
    /\ UNCHANGED <<tm, cover>>
    /\ UNCHANGED bgVars

\* exportTrackMetadataIntoID3v2Tag(pTag, trackMetadata)
ExportID3v2(pTagNull, trackMetadata) ==
    /\ tPc = "start"
    /\ fileTag.kind = "ID3v2"
    /\ Exported(exportTrackMetadataIntoID3v2Tag(pTagNull, fileTag, trackMetadata),
                pTagNull, trackMetadata)

\* exportTrackMetadataIntoAPETag(pTag, trackMetadata)
ExportAPE(pTagNull, trackMetadata) ==
    /\ tPc = "start"
    /\ fileTag.kind = "APE"
    /\ Exported(exportTrackMetadataIntoAPETag(pTagNull, fileTag, trackMetadata),
                pTagNull, trackMetadata)

\* exportTrackMetadataIntoXiphComment(pTag, trackMetadata)
ExportXiph(pTagNull, trackMetadata) ==
    /\ tPc = "start"
    /\ fileTag.kind = "Xiph"
    /\ Exported(exportTrackMetadataIntoXiphComment(pTagNull, fileTag, trackMetadata),
                pTagNull, trackMetadata)

\* exportTrackMetadataIntoMP4Tag(pTag, trackMetadata)
ExportMP4(pTagNull, trackMetadata) ==
    /\ tPc = "start"
    /\ fileTag.kind = "MP4"
    /\ Exported(exportTrackMetadataIntoMP4Tag(pTagNull, fileTag, trackMetadata),
                pTagNull, trackMetadata)

\* the caller after importTrackMetadataFromID3v2Tag: the process ends when
\* the import dereferences a missing header or reads a missing field
ImportedID3v2(result, crashed, pTrackMetadataNull) ==
    /\ tm' = IF pTrackMetadataNull \/ crashed THEN tm ELSE result.tm
    /\ call' = Call("import", pTrackMetadataNull,
                    IF crashed THEN "crash" ELSE "void", ~pTrackMetadataNull)
    /\ pre' = [tag |-> fileTag, tm |-> tm, cover |-> cover]
    /\ tPc' = "done"
    /\ UNCHANGED <<fileTag, cover, exported>>
    /\ UNCHANGED bgVars

\* whether the import ends the process
ImportID3v2Crashes(result, pTrackMetadataNull, outOfRange) ==
    /\ ~pTrackMetadataNull
    /\ \/ result.headerFault
       \/ result.commentFault /\ outOfRange.crash

ImportedID3v2Result(result, pTrackMetadataNull, outOfRange) ==
    ImportedID3v2(result, ImportID3v2Crashes(result, pTrackMetadataNull, outOfRange),
                  pTrackMetadataNull)

\* importTrackMetadataFromID3v2Tag(pTrackMetadata, tag): returns at once for
\* a null pTrackMetadata
ImportID3v2(pTrackMetadataNull, outOfRange) ==
    /\ tPc \in {"start", "exported"}
    /\ fileTag.kind = "ID3v2"
    /\ ImportedID3v2Result(importTrackMetadataFromID3v2Tag(tm, fileTag, outOfRange.value),
                           pTrackMetadataNull, outOfRange)

\* importTrackMetadataFromAPETag(pTrackMetadata, tag)
ImportAPE(pTrackMetadataNull) ==
    /\ tPc \in {"start", "exported"}
    /\ fileTag.kind = "APE"
    /\ tm' = IF pTrackMetadataNull THEN tm ELSE importTrackMetadataFromAPETag(tm, fileTag)
    /\ call' = Call("import", pTrackMetadataNull, "void", ~pTrackMetadataNull)
    /\ pre' = [tag |-> fileTag, tm |-> tm, cover |-> cover]
    /\ tPc' = "done"
    /\ UNCHANGED <<fileTag, cover, exported>>
    /\ UNCHANGED bgVars

\* importTrackMetadataFromVorbisCommentTag(pTrackMetadata, tag)
ImportXiph(pTrackMetadataNull) ==
    /\ tPc \in {"start", "exported"}
    /\ fileTag.kind = "Xiph"
    /\ tm' = IF pTrackMetadataNull THEN tm
             ELSE importTrackMetadataFromVorbisCommentTag(tm, fileTag)
    /\ call' = Call("import", pTrackMetadataNull, "void", ~pTrackMetadataNull)
    /\ pre' = [tag |-> fileTag, tm |-> tm, cover |-> cover]
    /\ tPc' = "done"
    /\ UNCHANGED <<fileTag, cover, exported>>
    /\ UNCHANGED bgVars

\* importTrackMetadataFromMP4Tag(pTrackMetadata, tag)
ImportMP4(pTrackMetadataNull) ==
    /\ tPc \in {"start", "exported"}
    /\ fileTag.kind = "MP4"
    /\ tm' = IF pTrackMetadataNull THEN tm ELSE importTrackMetadataFromMP4Tag(tm, fileTag)
    /\ call' = Call("import", pTrackMetadataNull, "void", ~pTrackMetadataNull)
    /\ pre' = [tag |-> fileTag, tm |-> tm, cover |-> cover]
    /\ tPc' = "done"
    /\ UNCHANGED <<fileTag, cover, exported>>
    /\ UNCHANGED bgVars

\* importTrackMetadataFromRIFFTag(pTrackMetadata, tag)
ImportRIFF(pTrackMetadataNull) ==
    /\ tPc = "start"
    /\ fileTag.kind = "RIFF"
    /\ tm' = IF pTrackMetadataNull THEN tm ELSE importTrackMetadataFromRIFFTag(tm, fileTag)
    /\ call' = Call("import", pTrackMetadataNull, "void", ~pTrackMetadataNull)
    /\ pre' = [tag |-> fileTag, tm |-> tm, cover |-> cover]
    /\ tPc' = "done"
    /\ UNCHANGED <<fileTag, cover, exported>>
    /\ UNCHANGED bgVars

\* importCoverImageFromID3v2Tag(pCoverArt, tag): returns at once for a null
\* pCoverArt
ImportCoverID3v2(pCoverArtNull) ==
    /\ tPc = "start"
    /\ fileTag.kind = "ID3v2"
    /\ cover' = IF pCoverArtNull THEN cover ELSE importCoverImageFromID3v2Tag(cover, fileTag)
    /\ call' = Call("importCover", pCoverArtNull, "void", ~pCoverArtNull)
    /\ pre' = [tag |-> fileTag, tm |-> tm, cover |-> cover]
    /\ tPc' = "done"
    /\ UNCHANGED <<fileTag, tm, exported>>
    /\ UNCHANGED bgVars

\* importCoverImageFromAPETag(pCoverArt, tag)
ImportCoverAPE(pCoverArtNull) ==
    /\ tPc = "start"
    /\ fileTag.kind = "APE"
    /\ cover' = IF pCoverArtNull THEN cover ELSE importCoverImageFromAPETag(cover, fileTag)
    /\ call' = Call("importCover", pCoverArtNull, "void", ~pCoverArtNull)
    /\ pre' = [tag |-> fileTag, tm |-> tm, cover |-> cover]
    /\ tPc' = "done"
    /\ UNCHANGED <<fileTag, tm, exported>>
    /\ UNCHANGED bgVars

\* importCoverImageFromVorbisCommentTag(pCoverArt, tag)
ImportCoverXiph(pCoverArtNull) ==
    /\ tPc = "start"
    /\ fileTag.kind = "Xiph"
    /\ cover' = IF pCoverArtNull THEN cover
                ELSE importCoverImageFromVorbisCommentTag(cover, fileTag)
    /\ call' = Call("importCover", pCoverArtNull, "void", ~pCoverArtNull)
    /\ pre' = [tag |-> fileTag, tm |-> tm, cover |-> cover]
    /\ tPc' = "done"
    /\ UNCHANGED <<fileTag, tm, exported>>
    /\ UNCHANGED bgVars

\* importCoverImageFromMP4Tag(pCoverArt, tag)
ImportCoverMP4(pCoverArtNull) ==
    /\ tPc = "start"
    /\ fileTag.kind = "MP4"
    /\ cover' = IF pCoverArtNull THEN cover ELSE importCoverImageFromMP4Tag(cover, fileTag)
    /\ call' = Call("importCover", pCoverArtNull, "void", ~pCoverArtNull)
    /\ pre' = [tag |-> fileTag, tm |-> tm, cover |-> cover]
    /\ tPc' = "done"
    /\ UNCHANGED <<fileTag, tm, exported>>
    /\ UNCHANGED bgVars

\* readAudioProperties(pTrackMetadata, file)
ReadAudioProperties(pTrackMetadataNull, file) ==
    /\ tPc = "start"
    /\ LET result == readAudioProperties(pTrackMetadataNull, tm, file)
       IN  /\ tm' = result.tm
           /\ call' = [Call("readAudioProperties", pTrackMetadataNull,
                            BoolStr(result.ret), FALSE)
                          EXCEPT !.fileValid = file.isValid]
    /\ pre' = [tag |-> fileTag, tm |-> tm, cover |-> cover]
    /\ tPc' = "done"
    /\ UNCHANGED <<fileTag, cover, exported>>
    /\ UNCHANGED bgVars

Next ==
    \/ \E pTagNull \in BOOLEAN, trackMetadata \in SourceModels :
          ExportID3v2(pTagNull, trackMetadata)
    \/ \E pTagNull \in BOOLEAN, trackMetadata \in SourceModels :
          ExportAPE(pTagNull, trackMetadata)
    \/ \E pTagNull \in BOOLEAN, trackMetadata \in SourceModels :
          ExportXiph(pTagNull, trackMetadata)
    \/ \E pTagNull \in BOOLEAN, trackMetadata \in SourceModels :
          ExportMP4(pTagNull, trackMetadata)
    \/ \E pTrackMetadataNull \in BOOLEAN, outOfRange \in OutOfRangeReads :
          ImportID3v2(pTrackMetadataNull, outOfRange)
    \/ \E pTrackMetadataNull \in BOOLEAN : ImportAPE(pTrackMetadataNull)
    \/ \E pTrackMetadataNull \in BOOLEAN : ImportXiph(pTrackMetadataNull)
    \/ \E pTrackMetadataNull \in BOOLEAN : ImportMP4(pTrackMetadataNull)
    \/ \E pTrackMetadataNull \in BOOLEAN : ImportRIFF(pTrackMetadataNull)
    \/ \E pCoverArtNull \in BOOLEAN : ImportCoverID3v2(pCoverArtNull)
    \/ \E pCoverArtNull \in BOOLEAN : ImportCoverAPE(pCoverArtNull)
    \/ \E pCoverArtNull \in BOOLEAN : ImportCoverXiph(pCoverArtNull)
    \/ \E pCoverArtNull \in BOOLEAN : ImportCoverMP4(pCoverArtNull)
    \/ \E pTrackMetadataNull \in BOOLEAN, file \in FileSamples :
          ReadAudioProperties(pTrackMetadataNull, file)

Spec == Init /\ [][Next]_vars


(***************************************************************************)
(* The callers that import a numeric text.  A caller holds a tag with one  *)
(* numeric entry and a model with prior values, and imports the tag once.  *)
(***************************************************************************)
BpmTexts ==
    { << "1", "4", "5", "2" >>, << "1", "4", "5", "2", "5" >>,
      << "2", "0", "0", "0", "0" >>, << "2", "0", "0", "5" >>,
      << "2", "0", "0" >>, << "1", "2", "8", ".", "5" >>, << "9", "9" >>,
      << "a", "b", "c" >>, << "1", "2", "x" >>, <<>> }

TrackGainTexts ==
    { << "0", " ", "d", "B" >>, << "0" >>, << "+", "0", ".", "0", "0", " ", "d", "B" >>,
      << "-", "3", " ", "d", "B" >>, << "1", ".", "5", " ", "d", "B" >>,
      << "a", "b", "c" >>, <<>> }

TrackPeakTexts ==
    { << "0", ".", "5" >>, << "1" >>, << "a", "b", "c" >>, <<>> }

NumericCases ==
    {[field |-> "bpm", text |-> text] : text \in BpmTexts}
    \cup {[field |-> "trackGain", text |-> text] : text \in TrackGainTexts}
    \cup {[field |-> "trackPeak", text |-> text] : text \in TrackPeakTexts}

NumericKinds == {"ID3v2", "APE", "Xiph", "MP4"}

\* the container entry of a numeric field
NumericKey(kind, field) ==
    IF kind = "MP4"
    THEN (IF field = "bpm" THEN "----:com.apple.iTunes:BPM"
          ELSE IF field = "trackGain" THEN "----:com.apple.iTunes:replaygain_track_gain"
          ELSE "----:com.apple.iTunes:replaygain_track_peak")
    ELSE IF field = "bpm" THEN (IF kind = "Xiph" THEN "TEMPO" ELSE "BPM")
    ELSE IF field = "trackGain" THEN "REPLAYGAIN_TRACK_GAIN"
    ELSE "REPLAYGAIN_TRACK_PEAK"

\* the tag of a kind that holds the text of a case and nothing else
NumericTag(kind, case) ==
    IF kind = "ID3v2"
    THEN [EmptyTag(kind) EXCEPT !.frames =
              IF case.field = "bpm" THEN << TextIdentificationFrame("TBPM", case.text) >>
              ELSE IF case.field = "trackGain"
              THEN << UserTextIdentificationFrame(<< REPLAYGAIN_TRACK_GAIN, case.text >>) >>
              ELSE << UserTextIdentificationFrame(<< REPLAYGAIN_TRACK_PEAK, case.text >>) >>]
    ELSE IF kind = "MP4"
    THEN [EmptyTag(kind) EXCEPT
              !.atoms[NumericKey(kind, case.field)] = StringListItem(<< case.text >>)]
    ELSE [EmptyTag(kind) EXCEPT !.fields[NumericKey(kind, case.field)] = << case.text >>]

NumericTags == {NumericTag(kind, case) : kind \in NumericKinds, case \in NumericCases}

\* the models a caller imports into: the fresh one, one with plausible
\* values, one whose bpm is above Bpm::kValueMax
PriorModels ==
    { TrackMetadata,
      [TrackMetadata EXCEPT
          !.bpm = 128 * FixedPointScale + FixedPointScale \div 2,
          !.replayGain = [ratio |-> [defined |-> TRUE, db |-> 0 - 3 * FixedPointScale],
                          peak |-> FixedPointScale \div 2]],
      [TrackMetadata EXCEPT
          !.bpm = 1452 * FixedPointScale,
          !.replayGain = [ratio |-> [defined |-> TRUE, db |-> 2 * FixedPointScale],
                          peak |-> FixedPointScale]] }

InitNumeric ==
    /\ fileTag \in NumericTags
    /\ tm \in PriorModels
    /\ cover = NullImage
    /\ tPc = "start"
    /\ exported = [done |-> FALSE, ret |-> FALSE, pTagNull |-> FALSE,
                   source |-> TrackMetadata, into |-> fileTag]
    /\ call = NoCall
    /\ pre = [tag |-> fileTag, tm |-> tm, cover |-> cover]
    /\ BeatGridIdle

NextNumeric ==
    \/ \E pTrackMetadataNull \in BOOLEAN, outOfRange \in OutOfRangeReads :
          ImportID3v2(pTrackMetadataNull, outOfRange)
    \/ \E pTrackMetadataNull \in BOOLEAN : ImportAPE(pTrackMetadataNull)
    \/ \E pTrackMetadataNull \in BOOLEAN : ImportXiph(pTrackMetadataNull)
    \/ \E pTrackMetadataNull \in BOOLEAN : ImportMP4(pTrackMetadataNull)

SpecNumeric == InitNumeric /\ [][NextNumeric]_vars


(***************************************************************************)
(* The callers of the ID3v2 adapters.  A caller holds an ID3v2 tag with    *)
(* comment frames or with year frames and a fresh model; it exports a      *)
(* model into the tag at most once and then imports the tag once.          *)
(***************************************************************************)
MOOD == << "M", "O", "O", "D" >>

CommentFrameSamples ==
    { CommentsFrame(<<>>, <<>>), CommentsFrame(<<>>, P), CommentsFrame(<<>>, Q),
      CommentsFrame(iTunSMPB, << "s" >>),
      UserTextIdentificationFrame(<< COMMENT, << "t" >> >>),
      UserTextIdentificationFrame(<< comment_LowerCase, << "u" >> >>),
      UserTextIdentificationFrame(<< MOOD, << "m" >> >>) }

MaxFrames == 3

CommentFrameLists == SeqsUpTo(CommentFrameSamples, MaxFrames)

\* the texts of a TDRC, a TYER and a TDAT frame; NoFrame for a missing one
NoFrame == << "-" >>
RecordingTimes ==
    { NoFrame, << "1", "9", "8", "4" >>,
      << "2", "0", "0", "1", "-", "0", "2", "-", "0", "3" >> }
RecordingYears == { NoFrame, << "1", "9", "9", "9" >>, << "9", "9" >> }
RecordingDates ==
    { NoFrame, << "0", "1", "0", "6" >>, << "3", "1", "0", "2" >>, << "1", "0", "6" >> }

OptionalFrame(id, text) ==
    IF text = NoFrame THEN <<>> ELSE << TextIdentificationFrame(id, text) >>

YearFrameLists ==
    { OptionalFrame("TDRC", recordingTime) \o OptionalFrame("TYER", recordingYear)
          \o OptionalFrame("TDAT", recordingDate) :
        recordingTime \in RecordingTimes, recordingYear \in RecordingYears,
        recordingDate \in RecordingDates }

MajorVersions == {2, 3, 4}

\* the comment frames in tags of the versions that the export accepts, the
\* year frames in tags of version 2 as well
ID3v2Tags ==
    { [EmptyTag("ID3v2") EXCEPT !.header = majorVersion, !.frames = frames] :
        majorVersion \in MajorVersions \ {2}, frames \in CommentFrameLists }
    \cup { [EmptyTag("ID3v2") EXCEPT !.header = majorVersion, !.frames = frames] :
              majorVersion \in MajorVersions, frames \in YearFrameLists }

\* the models a caller exports: with and without a comment; without year,
\* with a calendar year and with a date
ID3v2Models ==
    { TrackMetadata,
      [TrackMetadata EXCEPT !.comment = << "n" >>],
      [TrackMetadata EXCEPT !.comment = << "n" >>, !.year = << "1", "9", "9", "9" >>],
      [TrackMetadata EXCEPT
          !.year = << "1", "9", "9", "9", "-", "0", "6", "-", "0", "1" >>] }

InitID3v2 ==
    /\ fileTag \in ID3v2Tags
    /\ tm = TrackMetadata
    /\ cover = NullImage
    /\ tPc = "start"
    /\ exported = [done |-> FALSE, ret |-> FALSE, pTagNull |-> FALSE,
                   source |-> TrackMetadata, into |-> fileTag]
    /\ call = NoCall
    /\ pre = [tag |-> fileTag, tm |-> tm, cover |-> cover]
    /\ BeatGridIdle

NextID3v2 ==
    \/ \E trackMetadata \in ID3v2Models : ExportID3v2(FALSE, trackMetadata)
    \/ \E pTrackMetadataNull \in BOOLEAN, outOfRange \in OutOfRangeReads :
          ImportID3v2(pTrackMetadataNull, outOfRange)

SpecID3v2 == InitID3v2 /\ [][NextID3v2]_vars


(***************************************************************************)
(* The callers of the Vorbis Comment adapters.  A caller holds a tag with  *)
(* recommended and alternative fields and a fresh model; it exports a      *)
(* model into the tag at most once and then imports the tag once.          *)
(***************************************************************************)
\* the value of a field in the caller's tags, one per field
XiphValue(key) ==
    IF key = "TRACKTOTAL" THEN << "1", "2" >>
    ELSE IF key = "TOTALTRACKS" THEN << "9" >>
    ELSE IF key = "TEMPO" THEN << "1", "2", "0" >>
    ELSE IF key = "BPM" THEN << "9", "9" >>
    ELSE IF key = "DESCRIPTION" THEN << "d" >>
    ELSE IF key = "COMMENT" THEN << "c" >>
    ELSE IF key = "ALBUMARTIST" THEN << "w" >>
    ELSE IF key = "ALBUM_ARTIST" THEN << "x" >>
    ELSE IF key = "ALBUM ARTIST" THEN << "y" >>
    ELSE IF key = "ENSEMBLE" THEN << "z" >>
    ELSE IF key = "INITIALKEY" THEN << "C", "m" >>
    ELSE << "D", "m" >>

\* the value lists of a field: missing, one empty string, one value
Absent == <<>>
OptionalField(key) == { Absent, << XiphValue(key) >> }
OptionalOrEmptyField(key) == { Absent, << <<>> >>, << XiphValue(key) >> }

XiphCommentTags ==
    { [EmptyTag("Xiph") EXCEPT !.fields["DESCRIPTION"] = description,
                               !.fields["COMMENT"] = comment] :
        description \in OptionalField("DESCRIPTION"), comment \in OptionalField("COMMENT") }

XiphAlbumArtistTags ==
    { [EmptyTag("Xiph") EXCEPT !.fields["ALBUMARTIST"] = albumArtist,
                               !.fields["ALBUM_ARTIST"] = album_artist,
                               !.fields["ALBUM ARTIST"] = albumSpaceArtist,
                               !.fields["ENSEMBLE"] = ensemble] :
        albumArtist \in OptionalOrEmptyField("ALBUMARTIST"),
        album_artist \in OptionalOrEmptyField("ALBUM_ARTIST"),
        albumSpaceArtist \in OptionalOrEmptyField("ALBUM ARTIST"),
        ensemble \in OptionalOrEmptyField("ENSEMBLE") }

XiphTrackNumberTags ==
    { [EmptyTag("Xiph") EXCEPT !.fields["TRACKNUMBER"] = trackNumber,
                               !.fields["TRACKTOTAL"] = trackTotal,
                               !.fields["TOTALTRACKS"] = totalTracks] :
        trackNumber \in { Absent, << << "7" >> >>, << << "7", "/", "8" >> >> },
        trackTotal \in OptionalField("TRACKTOTAL"),
        totalTracks \in OptionalField("TOTALTRACKS") }

XiphBpmTags ==
    { [EmptyTag("Xiph") EXCEPT !.fields["TEMPO"] = tempo, !.fields["BPM"] = bpm] :
        tempo \in OptionalField("TEMPO") \cup { << << "a", "b", "c" >> >> },
        bpm \in OptionalField("BPM") }

XiphKeyTags ==
    { [EmptyTag("Xiph") EXCEPT !.fields["INITIALKEY"] = initialKey, !.fields["KEY"] = key] :
        initialKey \in OptionalField("INITIALKEY"), key \in OptionalField("KEY") }

XiphTags ==
    XiphCommentTags \cup XiphAlbumArtistTags \cup XiphTrackNumberTags
        \cup XiphBpmTags \cup XiphKeyTags

InitXiph ==
    /\ fileTag \in XiphTags
    /\ tm = TrackMetadata
    /\ cover = NullImage
    /\ tPc = "start"
    /\ exported = [done |-> FALSE, ret |-> FALSE, pTagNull |-> FALSE,
                   source |-> TrackMetadata, into |-> fileTag]
    /\ call = NoCall
    /\ pre = [tag |-> fileTag, tm |-> tm, cover |-> cover]
    /\ BeatGridIdle

NextXiph ==
    \/ \E trackMetadata \in SourceModels : ExportXiph(FALSE, trackMetadata)
    \/ \E pTrackMetadataNull \in BOOLEAN : ImportXiph(pTrackMetadataNull)

SpecXiph == InitXiph /\ [][NextXiph]_vars


(***************************************************************************)
(* The callers of the MP4 adapters.  A caller holds a tag with or without  *)
(* the atoms ----:com.apple.iTunes:BPM, tmpo and trkn and a model with or  *)
(* without a bpm; it exports a model into the tag at most once and then    *)
(* imports the tag once.                                                   *)
(***************************************************************************)
FreeTextBpmItems ==
    { NoItem,
      StringListItem(<< << "1", "2", "8", ".", "5" >> >>),
      StringListItem(<< << "a", "b", "c" >> >>),
      StringListItem(<< <<>> >>) }

TempoItems == { NoItem, IntItem(120, "TypeInteger"), IntItem(120, "TypeUndefined") }

TrackNumberItems == { NoItem, IntPairItem(7, 9) }

MP4Tags ==
    { [EmptyTag("MP4") EXCEPT !.atoms["----:com.apple.iTunes:BPM"] = bpm,
                              !.atoms["tmpo"] = tmpo,
                              !.atoms["trkn"] = trkn] :
        bpm \in FreeTextBpmItems, tmpo \in TempoItems, trkn \in TrackNumberItems }

\* the models a caller imports into: without and with a bpm
MP4PriorModels == { TrackMetadata, [TrackMetadata EXCEPT !.bpm = 99 * FixedPointScale] }

\* the track numbers of the models a caller exports: empty, valid with and
\* without number or total, not a number
TrackNumberTexts ==
    { [trackNumber |-> <<>>, trackTotal |-> <<>>],
      [trackNumber |-> << "3" >>, trackTotal |-> << "1", "2" >>],
      [trackNumber |-> << "3" >>, trackTotal |-> <<>>],
      [trackNumber |-> <<>>, trackTotal |-> << "1", "2" >>],
      [trackNumber |-> << "x" >>, trackTotal |-> <<>>],
      [trackNumber |-> << "3" >>, trackTotal |-> << "y" >>] }

\* the models a caller exports: without bpm, year and key, or with a bpm
\* that rounds up, one that rounds down, a year and a key
MP4Models ==
    { [TrackMetadata EXCEPT !.trackNumber = texts.trackNumber,
                            !.trackTotal = texts.trackTotal,
                            !.bpm = bpm,
                            !.year = IF Bpm_hasValue(bpm) THEN << "1", "9", "9", "9" >>
                                     ELSE <<>>,
                            !.key = IF Bpm_hasValue(bpm) THEN << "A", "m" >> ELSE <<>>] :
        texts \in TrackNumberTexts,
        bpm \in { Bpm_kValueUndefined,
                  128 * FixedPointScale + FixedPointScale \div 2,
                  90 * FixedPointScale + FixedPointScale \div 4 } }

InitMP4 ==
    /\ fileTag \in MP4Tags
    /\ tm \in MP4PriorModels
    /\ cover = NullImage
    /\ tPc = "start"
    /\ exported = [done |-> FALSE, ret |-> FALSE, pTagNull |-> FALSE,
                   source |-> TrackMetadata, into |-> fileTag]
    /\ call = NoCall
    /\ pre = [tag |-> fileTag, tm |-> tm, cover |-> cover]
    /\ BeatGridIdle

NextMP4 ==
    \/ \E trackMetadata \in MP4Models : ExportMP4(FALSE, trackMetadata)
    \/ \E pTrackMetadataNull \in BOOLEAN : ImportMP4(pTrackMetadataNull)

SpecMP4 == InitMP4 /\ [][NextMP4]_vars


(***************************************************************************)
(* The callers of the cover art imports.  A caller holds a tag with        *)
(* pictures and a cover image, null or not, and imports the cover art      *)
(* once.  The data of a picture ends with its position in its list, so     *)
(* that the image tells the picture it was decoded from.                   *)
(***************************************************************************)
MaxPictures == 3
MaxLegacyEntries == 2

PictureTypes == {"FrontCover", "Media", "Illustration", "Other", "BackCover"}

\* the pictures at position i: one of every type that decodes, a FrontCover
\* and an Other that do not
PictureSamples(i) ==
    { [type |-> type, data |-> << kImageMagic, i >>] : type \in PictureTypes }
    \cup { [type |-> type, data |-> << 0, i >>] : type \in {"FrontCover", "Other"} }

RECURSIVE PictureListsOfLen(_)
PictureListsOfLen(n) ==
    IF n = 0 THEN { <<>> }
    ELSE { Append(pictures, picture) :
             pictures \in PictureListsOfLen(n - 1), picture \in PictureSamples(n) }

PictureLists == UNION { PictureListsOfLen(n) : n \in 0..MaxPictures }

\* the APIC frames of a picture list
PictureFrames(pictures) ==
    [i \in DOMAIN pictures |-> AttachedPictureFrame(pictures[i].type, pictures[i].data)]

\* the entries of METADATA_BLOCK_PICTURE at position i: a picture record
\* that decodes, one that does not decode, one whose length field is wrong
PictureBlockSamples(i) ==
    { toBase64(BE32(3) \o BE32(2) \o << kImageMagic, 10 + i >>),
      toBase64(BE32(3) \o BE32(2) \o << 0, 10 + i >>),
      toBase64(BE32(3) \o BE32(5) \o << kImageMagic, 10 + i >>) }

\* the entries of COVERART at position i: an image that decodes and one
\* that does not
CoverArtSamples(i) ==
    { toBase64(<< kImageMagic, 20 + i >>), toBase64(<< 0, 20 + i >>) }

RECURSIVE PictureBlockListsOfLen(_)
PictureBlockListsOfLen(n) ==
    IF n = 0 THEN { <<>> }
    ELSE { Append(entries, entry) :
             entries \in PictureBlockListsOfLen(n - 1), entry \in PictureBlockSamples(n) }

RECURSIVE CoverArtListsOfLen(_)
CoverArtListsOfLen(n) ==
    IF n = 0 THEN { <<>> }
    ELSE { Append(entries, entry) :
             entries \in CoverArtListsOfLen(n - 1), entry \in CoverArtSamples(n) }

\* the structured picture lists next to legacy fields
LegacyPictureLists ==
    { <<>>,
      << [type |-> "FrontCover", data |-> << 0, 1 >>] >>,
      << [type |-> "Other", data |-> << kImageMagic, 1 >>] >> }

\* the values of the APE item COVER ART (FRONT): a file name, a null byte
\* and an image; no file name; an image with a null byte; no null byte; no
\* image; an image that does not decode; no bytes
APECoverValues ==
    { << 102, 0, kImageMagic, 1 >>,
      << 0, kImageMagic, 2 >>,
      << 102, 0, kImageMagic, 0, 3 >>,
      << 102, 111, kImageMagic, 4 >>,
      << 102, 0 >>,
      << 102, 0, 7, 5 >>,
      <<>> }

CoverTags ==
    { [EmptyTag("ID3v2") EXCEPT !.frames = PictureFrames(pictures)] :
        pictures \in PictureLists }
    \cup { [EmptyTag("Xiph") EXCEPT !.pictures = pictures] : pictures \in PictureLists }
    \cup { [EmptyTag("Xiph") EXCEPT
               !.pictures = pictures,
               !.legacy = [METADATA_BLOCK_PICTURE |-> pictureBlocks,
                           COVERART |-> coverArt]] :
             pictures \in LegacyPictureLists,
             pictureBlocks \in UNION { PictureBlockListsOfLen(n) : n \in 0..MaxLegacyEntries },
             coverArt \in UNION { CoverArtListsOfLen(n) : n \in 0..MaxLegacyEntries } }
    \cup { EmptyTag("APE") }
    \cup { [EmptyTag("APE") EXCEPT !.apeCover = [present |-> TRUE, value |-> value]] :
             value \in APECoverValues }

\* the cover image a caller holds before the import
PriorCover == << kImageMagic, 99 >>

InitCover ==
    /\ fileTag \in CoverTags
    /\ tm = TrackMetadata
    /\ cover \in { NullImage, PriorCover }
    /\ tPc = "start"
    /\ exported = [done |-> FALSE, ret |-> FALSE, pTagNull |-> FALSE,
                   source |-> TrackMetadata, into |-> fileTag]
    /\ call = NoCall
    /\ pre = [tag |-> fileTag, tm |-> tm, cover |-> cover]
    /\ BeatGridIdle

NextCover ==
    \/ \E pCoverArtNull \in BOOLEAN : ImportCoverID3v2(pCoverArtNull)
    \/ \E pCoverArtNull \in BOOLEAN : ImportCoverXiph(pCoverArtNull)
    \/ \E pCoverArtNull \in BOOLEAN : ImportCoverAPE(pCoverArtNull)

SpecCover == InitCover /\ [][NextCover]_vars


(***************************************************************************)
(* The callers that import into a model that holds values.  A caller holds *)
(* a tag without entries, with one entry or with all entries, and a model  *)
(* that is fresh or holds a value in every field; it imports the tag once. *)
(***************************************************************************)
\* the frames of a tag with one entry
ID3v2EntrySamples ==
    { TextIdentificationFrame(id, PriorValue(id)) :
        id \in {"TPE2", "TCOM", "TIT1", "TKEY", "TRCK", "TBPM", "TYER", "TDAT", "TDRC",
                "TOAL"} }
    \cup { UserTextIdentificationFrame(
               << REPLAYGAIN_TRACK_GAIN, PriorValue("REPLAYGAIN_TRACK_GAIN") >>),
           UserTextIdentificationFrame(
               << REPLAYGAIN_TRACK_PEAK, PriorValue("REPLAYGAIN_TRACK_PEAK") >>),
           UserTextIdentificationFrame(<< COMMENT, Q >>),
           CommentsFrame(<<>>, Q) }

\* the item of an MP4 atom with a value
MP4EntrySample(key) ==
    IF key = "trkn" THEN IntPairItem(7, 9)
    ELSE IF key = "tmpo" THEN IntItem(99, "TypeInteger")
    ELSE IF key = "covr" THEN CoverArtListItem(<< DecodablePicture >>)
    ELSE StringListItem(<< PriorValue(key) >>)

\* the sets of entries of a tag: none, one, all
EntrySets(keys) == { {} } \cup { {k} : k \in keys } \cup { keys }

ImportTags ==
    { [EmptyTag("ID3v2") EXCEPT !.header = majorVersion, !.std = std, !.frames = frames] :
        majorVersion \in {3, 4}, std \in {EmptyStd, PriorStd},
        frames \in { <<>> } \cup { << frame >> : frame \in ID3v2EntrySamples } }
    \cup { [EmptyTag("APE") EXCEPT
               !.std = std,
               !.fields = [k \in APEKeys |->
                              IF k \in keys THEN << PriorValue(k) >> ELSE <<>>]] :
             std \in {EmptyStd, PriorStd}, keys \in EntrySets(APEKeys) }
    \cup { [EmptyTag("Xiph") EXCEPT
               !.std = std,
               !.fields = [k \in XiphKeys |->
                              IF k \in keys THEN << PriorValue(k) >> ELSE <<>>]] :
             std \in {EmptyStd, PriorStd}, keys \in EntrySets(XiphKeys) }
    \cup { [EmptyTag("MP4") EXCEPT
               !.std = std,
               !.atoms = [k \in MP4Keys |->
                             IF k \in keys THEN MP4EntrySample(k) ELSE NoItem]] :
             std \in {EmptyStd, PriorStd}, keys \in EntrySets(MP4Keys) }

\* a model with a value in every field
FullModel ==
    [TrackMetadata EXCEPT
        !.title = << "T" >>, !.artist = << "R" >>, !.album = << "L" >>,
        !.genre = << "E" >>, !.comment = << "N" >>,
        !.albumArtist = << "A" >>, !.composer = << "C" >>, !.grouping = << "G" >>,
        !.key = << "B", "m" >>, !.year = << "2", "0", "1", "0" >>,
        !.trackNumber = << "5" >>, !.trackTotal = << "6" >>,
        !.bpm = 150 * FixedPointScale,
        !.replayGain = [ratio |-> [defined |-> TRUE, db |-> 2 * FixedPointScale],
                        peak |-> FixedPointScale]]

InitImport ==
    /\ fileTag \in ImportTags
    /\ tm \in { TrackMetadata, FullModel }
    /\ cover = NullImage
    /\ tPc = "start"
    /\ exported = [done |-> FALSE, ret |-> FALSE, pTagNull |-> FALSE,
                   source |-> TrackMetadata, into |-> fileTag]
    /\ call = NoCall
    /\ pre = [tag |-> fileTag, tm |-> tm, cover |-> cover]
    /\ BeatGridIdle

NextImport ==
    \/ \E pTrackMetadataNull \in BOOLEAN, outOfRange \in OutOfRangeReads :
          ImportID3v2(pTrackMetadataNull, outOfRange)
    \/ \E pTrackMetadataNull \in BOOLEAN : ImportAPE(pTrackMetadataNull)
    \/ \E pTrackMetadataNull \in BOOLEAN : ImportXiph(pTrackMetadataNull)
    \/ \E pTrackMetadataNull \in BOOLEAN : ImportMP4(pTrackMetadataNull)

SpecImport == InitImport /\ [][NextImport]_vars


(***************************************************************************)
(* Properties of the SeratoBeatGrid machine.                               *)
(***************************************************************************)
\* The grid the last parse wrote to, and the grid whose dump it read
BgTarget == IF bgRet.target = "grid" THEN grid ELSE grid2
BgSource == IF bgRet.target = "grid" THEN bgPre ELSE grid

\* The last parse read the undamaged dump of BgSource for the same family
ParsedOwnDump ==
    /\ bgPc = "parsed"
    /\ bgRet.fileType = fileType
    /\ data = dump(BgSource, fileType)

C3_OperatorEqIsValueEquality ==
    eqRet # "none" => eqRet = BoolStr(MarkerSet(grid) = MarkerSet(grid2))

Ordered(g) ==
    /\ \A i \in 1..(Len(g.nonTerminal) - 1) :
           g.nonTerminal[i].positionSecs <= g.nonTerminal[i + 1].positionSecs
    /\ (g.terminal.addr # 0 /\ g.nonTerminal # <<>>) =>
           g.nonTerminal[Len(g.nonTerminal)].positionSecs <= g.terminal.positionSecs

C5_MarkersOrdered == Ordered(grid) /\ Ordered(grid2)


(***************************************************************************)
(* Properties of the tag adapters.                                         *)
(***************************************************************************)
\* an import into the fresh model has returned after a successful export
ImportedAfterExport ==
    /\ tPc = "done"
    /\ call.op = "import" /\ ~call.nullArg /\ call.ret = "void"
    /\ exported.done /\ exported.ret
    /\ pre.tm = TrackMetadata

\* the tags without contents that an export can succeed on
EmptyTargets ==
    {[EmptyTag("ID3v2") EXCEPT !.header = majorVersion] : majorVersion \in {3, 4}}
    \cup {EmptyTag("APE"), EmptyTag("Xiph"), EmptyTag("MP4")}

\* the fields of the round trip that the adapter of a kind of tag maps
RoundTripFields(kind) ==
    {"albumArtist", "composer", "grouping", "trackNumber", "trackTotal"}
    \cup (IF kind = "APE" THEN {} ELSE {"key"})

\* C6: exporting a model into an empty ID3v2 (version 3 or 4), APEv2, Vorbis
\* Comment or MP4 tag and importing that tag into a fresh model gives back
\* albumArtist, composer, grouping, key (where mapped), trackNumber and
\* trackTotal, whatever combination of them is empty.
C6_ExportImportIdempotent ==
    (ImportedAfterExport /\ exported.into \in EmptyTargets)
    => \A field \in RoundTripFields(fileTag.kind) : tm[field] = exported.source[field]

\* the text fields of the purge law that the adapter of a kind of tag writes
PurgedFields(kind) ==
    {"albumArtist", "composer", "grouping"} \cup (IF kind = "APE" THEN {} ELSE {"key"})

\* the container entries of a text field, alternatives included
ID3v2FrameOf(field) ==
    IF field = "albumArtist" THEN "TPE2"
    ELSE IF field = "composer" THEN "TCOM"
    ELSE IF field = "grouping" THEN "TIT1"
    ELSE "TKEY"

APEItemOf(field) ==
    IF field = "albumArtist" THEN "Album Artist"
    ELSE IF field = "composer" THEN "Composer"
    ELSE "Grouping"

XiphFieldsOf(field) ==
    IF field = "albumArtist" THEN {"ALBUMARTIST", "ALBUM_ARTIST", "ALBUM ARTIST", "ENSEMBLE"}
    ELSE IF field = "composer" THEN {"COMPOSER"}
    ELSE IF field = "grouping" THEN {"GROUPING"}
    ELSE {"INITIALKEY", "KEY"}

MP4AtomsOf(field) ==
    IF field = "albumArtist" THEN {"aART"}
    ELSE IF field = "composer" THEN {"(c)wrt"}
    ELSE IF field = "grouping" THEN {"(c)grp"}
    ELSE {"----:com.apple.iTunes:initialkey", "----:com.apple.iTunes:KEY"}

\* the tag holds a container entry for the field
HasEntry(tag, field) ==
    IF tag.kind = "ID3v2" THEN FrameIndexes(tag.frames, ID3v2FrameOf(field)) # {}
    ELSE IF tag.kind = "APE" THEN tag.fields[APEItemOf(field)] # <<>>
    ELSE IF tag.kind = "Xiph" THEN \E k \in XiphFieldsOf(field) : tag.fields[k] # <<>>
    ELSE \E k \in MP4AtomsOf(field) : tag.atoms[k].type # "none"

\* C7: after a successful export of a model whose albumArtist, composer,
\* grouping or key is empty, into a tag with any prior contents, the tag
\* holds no entry for that field, alternative fields included, and an
\* import into a fresh model yields the empty string for it.
C7_PurgeLaw ==
    (exported.done /\ exported.ret)
    => \A field \in PurgedFields(fileTag.kind) :
           exported.source[field] = <<>>
           => /\ ~HasEntry(fileTag, field)
              /\ ImportedAfterExport => tm[field] = <<>>

\* an empty albumArtist was exported into a Vorbis Comment tag that held the
\* alternative fields, and its empty key into one that held KEY; the tag was
\* then imported
C7_Witness ==
    /\ ImportedAfterExport
    /\ fileTag.kind = "Xiph"
    /\ exported.source.albumArtist = <<>> /\ exported.source.key = <<>>
    /\ exported.into.fields["ENSEMBLE"] # <<>>
    /\ exported.into.fields["ALBUM_ARTIST"] # <<>>
    /\ exported.into.fields["KEY"] # <<>>
    /\ tm.albumArtist = <<>> /\ tm.key = <<>>

\* C8: after a successful ID3v2 export of a model with an empty comment into
\* a tag with any prior frames, an ID3v2 import into a fresh model yields an
\* empty comment.
C8_CommentPurged ==
    (ImportedAfterExport /\ fileTag.kind = "ID3v2" /\ exported.source.comment = <<>>)
    => tm.comment = <<>>

\* C9: an ID3v2 export on a tag without header or with a major version below
\* 3 returns failure and leaves every frame of the tag as it was; on a tag
\* with major version 3 or higher it returns success.
C9_ID3v2VersionGate ==
    (exported.done /\ ~exported.pTagNull /\ exported.into.kind = "ID3v2")
    => IF exported.into.header = 0 \/ exported.into.header < 3
       THEN ~exported.ret /\ fileTag = exported.into
       ELSE exported.ret

\* a model with values was exported into a version 2 tag that holds frames
C9_Witness ==
    /\ tPc = "exported"
    /\ ~exported.pTagNull
    /\ exported.into.kind = "ID3v2" /\ exported.into.header = 2
    /\ exported.into.frames # <<>>
    /\ exported.source.albumArtist # <<>> /\ exported.source.comment # <<>>
    /\ ~exported.ret
    /\ fileTag.frames = exported.into.frames

\* C10: an export with a null tag returns failure and writes nothing; an
\* import of metadata or of cover art with a null destination returns
\* without reading the tag and without effect; readAudioProperties with a
\* null destination returns success for a valid file.
C10_MissingTarget ==
    /\ (call.op = "export" /\ call.nullArg)
       => call.ret = "false" /\ ~call.tagRead /\ fileTag = pre.tag
    /\ (call.op \in {"import", "importCover"} /\ call.nullArg)
       => /\ call.ret = "void" /\ ~call.tagRead
          /\ fileTag = pre.tag /\ tm = pre.tm /\ cover = pre.cover
    /\ (call.op = "readAudioProperties" /\ call.nullArg /\ call.fileValid)
       => call.ret = "true" /\ tm = pre.tm

\* a model with values was exported through a null APEv2 tag while the
\* caller's tag was empty
C10_Witness ==
    /\ call.op = "export" /\ call.nullArg
    /\ fileTag = EmptyTag("APE")
    /\ exported.source.albumArtist # <<>> /\ exported.source.comment # <<>>
    /\ call.ret = "false"

(***************************************************************************)
(* Properties of the numeric imports.                                      *)
(***************************************************************************)
\* an import into the caller's model has returned
Imported ==
    /\ tPc = "done"
    /\ call.op = "import" /\ ~call.nullArg /\ call.ret = "void"

\* the caller's tag is the tag of the kind with the text of the case
HoldsCase(kind, case) == fileTag.kind = kind /\ fileTag = NumericTag(kind, case)

RECURSIVE Pow10(_)
Pow10(k) == IF k = 0 THEN 1 ELSE 10 * Pow10(k - 1)

MaxDivisions == 3

\* C11: after the ID3v2 import of a TBPM frame with a validly parsed value v
\* the bpm is v divided by 10 exactly k times, k the least number of
\* divisions that brings the value to Bpm::kValueMax or below (none for
\* v <= kValueMax), and the bpm does not exceed kValueMax.
C11_BpmScaleCorrection ==
    \A case \in NumericCases :
        (/\ Imported /\ HoldsCase("ID3v2", case)
         /\ case.field = "bpm" /\ Bpm_valueFromString(case.text).valid)
        => /\ tm.bpm <= Bpm_kValueMax
           /\ \E k \in 0..MaxDivisions :
                 /\ tm.bpm * Pow10(k) = Bpm_valueFromString(case.text).value
                 /\ k > 0 => Bpm_valueFromString(case.text).value
                                 > Bpm_kValueMax * Pow10(k - 1)

\* the text 1452 has been imported as 145.2
C11_Witness ==
    /\ Imported
    /\ HoldsCase("ID3v2", [field |-> "bpm", text |-> << "1", "4", "5", "2" >>])
    /\ tm.bpm = 145 * FixedPointScale + 2 * (FixedPointScale \div 10)

\* the validity of the text of a case and the value of its field in a model
IsValidCase(case) ==
    IF case.field = "bpm" THEN Bpm_valueFromString(case.text).valid
    ELSE IF case.field = "trackGain" THEN ReplayGain_ratioFromString(case.text).valid
    ELSE ReplayGain_peakFromString(case.text).valid

NumericField(trackMetadata, field) ==
    IF field = "bpm" THEN trackMetadata.bpm
    ELSE IF field = "trackGain" THEN trackMetadata.replayGain.ratio
    ELSE trackMetadata.replayGain.peak

\* C12: in every import adapter a bpm, track gain or track peak text that
\* fails to parse leaves the value of the model as it was before the import,
\* whatever that value was.
C12_InvalidNumericKeepsPrior ==
    \A kind \in NumericKinds, case \in NumericCases :
        (Imported /\ HoldsCase(kind, case) /\ ~IsValidCase(case))
        => NumericField(tm, case.field) = NumericField(pre.tm, case.field)

\* C13: a track gain text that parses validly to 0 dB is reported as valid
\* and sets the ratio to ReplayGain::kRatioUndefined, the peak staying as it
\* was; any other valid ratio is stored as parsed; in all four imports.
C13_ReplayGainUndefinedConvention ==
    \A kind \in NumericKinds, case \in NumericCases :
        (/\ Imported /\ HoldsCase(kind, case)
         /\ case.field = "trackGain" /\ ReplayGain_ratioFromString(case.text).valid)
        => /\ parseTrackGain(pre.tm, case.text).valid
           /\ tm.replayGain.peak = pre.tm.replayGain.peak
           /\ tm.replayGain.ratio =
                  IF ReplayGain_ratioFromString(case.text).ratio = ReplayGain_kRatio0dB
                  THEN ReplayGain_kRatioUndefined
                  ELSE ReplayGain_ratioFromString(case.text).ratio

\* the text "0 dB" has replaced a defined ratio by the undefined one
C13_Witness ==
    /\ Imported
    /\ HoldsCase("MP4", [field |-> "trackGain", text |-> << "0", " ", "d", "B" >>])
    /\ ReplayGain_isValidRatio(pre.tm.replayGain.ratio)
    /\ tm.replayGain.ratio = ReplayGain_kRatioUndefined
    /\ tm.replayGain.peak = FixedPointScale \div 2

(***************************************************************************)
(* Properties of the ID3v2 adapters.                                       *)
(***************************************************************************)
\* a COMM frame whose description is the empty one, ignoring case
IsPlainComment(frame) == frame.id = "COMM" /\ EqualsIgnoreCase(frame.description, <<>>)

\* a TXXX frame described COMMENT, ignoring case
IsLegacyComment(frame) ==
    frame.id = "TXXX" /\ EqualsIgnoreCase(FirstOf(frame.fieldList), COMMENT)

IsNotLegacyComment(frame) == ~IsLegacyComment(frame)

\* C14: the ID3v2 import takes the comment from the first COMM frame with
\* the empty description that has content, from the first such frame when
\* none has content, and from the first TXXX frame described COMMENT only
\* when no COMM frame has the empty description.
C14_CommentSelection ==
    (Imported /\ fileTag.kind = "ID3v2")
    => LET frames == fileTag.frames
           plain == {i \in DOMAIN frames : IsPlainComment(frames[i])}
           filled == {i \in plain : frames[i].text # <<>>}
           legacy == {i \in DOMAIN frames :
                         IsLegacyComment(frames[i]) /\ Len(frames[i].fieldList) >= 2}
       IN  /\ filled # {} => tm.comment = frames[MinOf(filled)].text
           /\ (plain # {} /\ filled = {}) => tm.comment = frames[MinOf(plain)].text
           /\ (plain = {} /\ legacy # {}) => tm.comment = frames[MinOf(legacy)].fieldList[2]
           /\ (\E i \in legacy : tm.comment = frames[i].fieldList[2]) => plain = {}

\* the second of two COMM frames is taken for the empty first one, with a
\* TXXX frame described COMMENT ahead of both
C14_Witness ==
    /\ Imported
    /\ fileTag.kind = "ID3v2"
    /\ fileTag.frames = << UserTextIdentificationFrame(<< COMMENT, << "t" >> >>),
                           CommentsFrame(<<>>, <<>>), CommentsFrame(<<>>, Q) >>
    /\ tm.comment = Q

\* C15: after a successful ID3v2 export the tag holds no TXXX frame
\* described COMMENT (ignoring case), whatever the comment and the prior
\* frames; the removal returns the number of such frames and takes away no
\* other frame, so that TXXX frames with other descriptions stay.
C15_LegacyCommentsRemoved ==
    (exported.done /\ exported.ret /\ fileTag.kind = "ID3v2")
    => LET before == exported.into.frames
           removal == removeUserTextIdentificationFrames(before, COMMENT)
       IN  /\ \A i \in DOMAIN fileTag.frames : ~IsLegacyComment(fileTag.frames[i])
           /\ removal.count = Cardinality({i \in DOMAIN before : IsLegacyComment(before[i])})
           /\ removal.frames = SelectSeq(before, IsNotLegacyComment)
           /\ \A i \in DOMAIN before :
                 (before[i].id = "TXXX" /\ ~IsLegacyComment(before[i]))
                 => \E j \in DOMAIN fileTag.frames : fileTag.frames[j] = before[i]

\* two TXXX frames described COMMENT and comment are gone, the TXXX frame
\* described MOOD between them is still there
C15_Witness ==
    /\ tPc = "exported" /\ exported.ret
    /\ exported.into.frames =
           << UserTextIdentificationFrame(<< COMMENT, << "t" >> >>),
              UserTextIdentificationFrame(<< MOOD, << "m" >> >>),
              UserTextIdentificationFrame(<< comment_LowerCase, << "u" >> >>) >>
    /\ exported.source.comment = <<>>
    /\ FrameList(fileTag.frames, "TXXX")
           = << UserTextIdentificationFrame(<< MOOD, << "m" >> >>) >>

\* the text of the first non-empty frame of an id
FrameText(tag, id) == toQStringFirstNotEmpty_FrameList(FrameList(tag.frames, id))

\* the year that TYER and TDAT give: the date composed of a TYER and a TDAT
\* of 4 characters each when it is valid, else the TYER text
LegacyYear(recordingYear, recordingDate) ==
    IF /\ Len(recordingYear) = 4 /\ Len(recordingDate) = 4
       /\ AllDigits(recordingYear \o recordingDate)
       /\ MakeDate(DigitsValue(recordingYear),
                   DigitsValue(SubSeq(recordingDate, 3, 4)),
                   DigitsValue(SubSeq(recordingDate, 1, 2))).valid
    THEN formatDate(MakeDate(DigitsValue(recordingYear),
                             DigitsValue(SubSeq(recordingDate, 3, 4)),
                             DigitsValue(SubSeq(recordingDate, 1, 2))))
    ELSE recordingYear

\* C16: the ID3v2 import into a fresh model takes the year of a tag of
\* version 4 or higher from TDRC; for a lower version TDRC has no influence
\* and the year is the date composed of TYER and TDAT (day, then month) when
\* both have 4 characters and the date is valid, else the TYER text.
C16_YearImport ==
    (Imported /\ fileTag.kind = "ID3v2" /\ pre.tm = TrackMetadata /\ ~exported.done)
    => IF fileTag.header >= 4
       THEN FrameText(fileTag, "TDRC") # <<>> => tm.year = FrameText(fileTag, "TDRC")
       ELSE tm.year = LegacyYear(FrameText(fileTag, "TYER"), FrameText(fileTag, "TDAT"))

\* C17: on a tag of version 3 with any prior TYER, TDAT and TDRC frames, the
\* export of a model and the import into a fresh model give the year of the
\* exported model: empty, a calendar year or a date.
C17_YearExportReplaces ==
    (ImportedAfterExport /\ fileTag.kind = "ID3v2" /\ fileTag.header = 3)
    => tm.year = exported.source.year

(***************************************************************************)
(* Properties of the Vorbis Comment adapters.                              *)
(***************************************************************************)
\* the fields that the export writes under a recommended name and updates
\* under alternative names
XiphDualFields ==
    { [field |-> "trackTotal", recommended |-> "TRACKTOTAL",
       alternatives |-> {"TOTALTRACKS"}],
      [field |-> "albumArtist", recommended |-> "ALBUMARTIST",
       alternatives |-> {"ALBUM_ARTIST", "ALBUM ARTIST", "ENSEMBLE"}],
      [field |-> "bpm", recommended |-> "TEMPO", alternatives |-> {"BPM"}],
      [field |-> "key", recommended |-> "INITIALKEY", alternatives |-> {"KEY"}] }

\* the text that the export writes for a field of the model
ExportedText(trackMetadata, field) ==
    IF field = "bpm" THEN Bpm_valueToString(trackMetadata.bpm) ELSE trackMetadata[field]

\* the value list of a field written with a text
WrittenField(text) == IF text = <<>> THEN <<>> ELSE << text >>

\* C18: the Vorbis Comment export writes TRACKTOTAL, ALBUMARTIST, TEMPO and
\* INITIALKEY for a non-empty value and removes them for an empty one; each
\* alternative field gets the same value or is removed if it was there
\* before the export, and is missing after the export if it was missing
\* before.
C18_DualWrite ==
    (exported.done /\ exported.ret /\ fileTag.kind = "Xiph")
    => \A dual \in XiphDualFields :
          /\ fileTag.fields[dual.recommended]
                 = WrittenField(ExportedText(exported.source, dual.field))
          /\ \A alternative \in dual.alternatives :
                 fileTag.fields[alternative]
                     = IF exported.into.fields[alternative] = <<>> THEN <<>>
                       ELSE WrittenField(ExportedText(exported.source, dual.field))

\* an album artist has been written to ALBUMARTIST and to the ALBUM_ARTIST
\* that was there, ENSEMBLE is still missing
C18_Witness ==
    /\ tPc = "exported" /\ exported.ret /\ fileTag.kind = "Xiph"
    /\ exported.into.fields["ALBUMARTIST"] = <<>>
    /\ exported.into.fields["ALBUM_ARTIST"] = << XiphValue("ALBUM_ARTIST") >>
    /\ exported.into.fields["ENSEMBLE"] = <<>>
    /\ exported.source.albumArtist = << "a" >>
    /\ fileTag.fields["ALBUMARTIST"] = << << "a" >> >>
    /\ fileTag.fields["ALBUM_ARTIST"] = << << "a" >> >>
    /\ fileTag.fields["ENSEMBLE"] = <<>>

\* C19: the Vorbis Comment import takes the album artist from the first
\* non-empty value of ALBUMARTIST, ALBUM_ARTIST, ALBUM ARTIST and ENSEMBLE,
\* in that order.
C19_AlbumArtistFirstNonEmpty ==
    (Imported /\ fileTag.kind = "Xiph" /\ pre.tm = TrackMetadata)
    => tm.albumArtist =
           toQStringFirstNotEmpty(
               << toQStringFirstNotEmpty(fileTag.fields["ALBUMARTIST"]),
                  toQStringFirstNotEmpty(fileTag.fields["ALBUM_ARTIST"]),
                  toQStringFirstNotEmpty(fileTag.fields["ALBUM ARTIST"]),
                  toQStringFirstNotEmpty(fileTag.fields["ENSEMBLE"]) >>)

\* C20: the Vorbis Comment import reads COMMENT only without DESCRIPTION,
\* BPM only without TEMPO, KEY only without INITIALKEY and TOTALTRACKS only
\* without TRACKTOTAL; either total replaces the one split off TRACKNUMBER.
C20_RecommendedBeforeAlternative ==
    (Imported /\ fileTag.kind = "Xiph")
    => LET fields == fileTag.fields
           Value(key) == toQStringFirstNotEmpty(fields[key])
           ParsedBpm(key) == IF Bpm_valueFromString(Value(key)).valid
                             THEN Bpm_valueFromString(Value(key)).value
                             ELSE pre.tm.bpm
       IN  /\ fields["DESCRIPTION"] # <<>> => tm.comment = Value("DESCRIPTION")
           /\ (fields["DESCRIPTION"] = <<>> /\ fields["COMMENT"] # <<>>)
                  => tm.comment = Value("COMMENT")
           /\ fields["TEMPO"] # <<>> => tm.bpm = ParsedBpm("TEMPO")
           /\ (fields["TEMPO"] = <<>> /\ fields["BPM"] # <<>>) => tm.bpm = ParsedBpm("BPM")
           /\ fields["INITIALKEY"] # <<>> => tm.key = Value("INITIALKEY")
           /\ (fields["INITIALKEY"] = <<>> /\ fields["KEY"] # <<>>) => tm.key = Value("KEY")
           /\ fields["TRACKNUMBER"] # <<>>
                  => tm.trackTotal =
                         IF fields["TRACKTOTAL"] # <<>> THEN Value("TRACKTOTAL")
                         ELSE IF fields["TOTALTRACKS"] # <<>> THEN Value("TOTALTRACKS")
                         ELSE splitString(Value("TRACKNUMBER")).total

\* TOTALTRACKS has replaced the total split off the TRACKNUMBER 7/8
C20_Witness ==
    /\ Imported /\ fileTag.kind = "Xiph" /\ ~exported.done
    /\ fileTag.fields["TRACKNUMBER"] = << << "7", "/", "8" >> >>
    /\ fileTag.fields["TRACKTOTAL"] = <<>>
    /\ fileTag.fields["TOTALTRACKS"] = << XiphValue("TOTALTRACKS") >>
    /\ tm.trackNumber = << "7" >>
    /\ tm.trackTotal = XiphValue("TOTALTRACKS")

(***************************************************************************)
(* Properties of the MP4 adapters.                                         *)
(***************************************************************************)
FreeTextBpm(tag) ==
    Bpm_valueFromString(
        toQStringFirstNotEmpty(Item_toStringList(tag.atoms["----:com.apple.iTunes:BPM"])))

HasValidFreeTextBpm(tag) ==
    tag.atoms["----:com.apple.iTunes:BPM"].type # "none" /\ FreeTextBpm(tag).valid

HasIntegerTempo(tag) ==
    tag.atoms["tmpo"].type = "int" /\ tag.atoms["tmpo"].atomDataType = "TypeInteger"

\* C21: the MP4 import takes the bpm from the free-text atom when it is
\* there and parses; else from the tmpo atom when its declared type is
\* integer, also when the free-text atom is there but does not parse; else
\* the bpm is the one the model held.
C21_MP4BpmPrecedence ==
    (Imported /\ fileTag.kind = "MP4")
    => tm.bpm = IF HasValidFreeTextBpm(fileTag) THEN FreeTextBpm(fileTag).value
                ELSE IF HasIntegerTempo(fileTag)
                THEN fileTag.atoms["tmpo"].first * FixedPointScale
                ELSE pre.tm.bpm

\* C22: after a successful MP4 export the tmpo atom is there exactly when
\* the bpm of the model has a value, and then holds the rounded bpm; the
\* free-text atom holds the formatted bpm when that text is not empty and
\* is missing when it is empty.
C22_MP4BpmExport ==
    (exported.done /\ exported.ret /\ fileTag.kind = "MP4")
    => LET bpm == exported.source.bpm
           text == Bpm_valueToString(bpm)
       IN  /\ fileTag.atoms["tmpo"].type # "none" <=> Bpm_hasValue(bpm)
           /\ Bpm_hasValue(bpm)
                  => /\ fileTag.atoms["tmpo"].type = "int"
                     /\ fileTag.atoms["tmpo"].first = Bpm_valueToInteger(bpm)
           /\ fileTag.atoms["----:com.apple.iTunes:BPM"]
                  = IF text = <<>> THEN NoItem ELSE StringListItem(<< text >>)

\* a model without bpm has been exported into a tag that held both atoms
C22_Witness ==
    /\ tPc = "exported" /\ exported.ret /\ fileTag.kind = "MP4"
    /\ exported.into.atoms["tmpo"] = IntItem(120, "TypeInteger")
    /\ exported.into.atoms["----:com.apple.iTunes:BPM"].type = "stringList"
    /\ ~Bpm_hasValue(exported.source.bpm)
    /\ fileTag.atoms["tmpo"] = NoItem
    /\ fileTag.atoms["----:com.apple.iTunes:BPM"] = NoItem

\* C30: the MP4 export removes the trkn atom when trackNumber and
\* trackTotal are both empty, sets it to the parsed pair when they parse,
\* and else leaves the atom of before the export; in each case it writes
\* the atoms that follow and returns true.
C30_MP4TrackNumberExport ==
    (exported.done /\ ~exported.pTagNull /\ fileTag.kind = "MP4")
    => LET source == exported.source
           empty == Trimmed(source.trackNumber) = <<>> /\ Trimmed(source.trackTotal) = <<>>
           numbers == << StrToInt(Trimmed(source.trackNumber)),
                         StrToInt(Trimmed(source.trackTotal)) >>
           valid == /\ ~empty
                    /\ \A i \in 1..2 : numbers[i].ok \/ << source.trackNumber,
                                                           source.trackTotal >>[i] = <<>>
           Number(i) == IF numbers[i].ok THEN numbers[i].value ELSE 0
       IN  /\ exported.ret
           /\ fileTag.atoms["trkn"]
                  = IF empty THEN NoItem
                    ELSE IF valid THEN IntPairItem(Number(1), Number(2))
                    ELSE exported.into.atoms["trkn"]
           /\ fileTag.atoms["(c)day"] = IF source.year = <<>> THEN NoItem
                                        ELSE StringListItem(<< source.year >>)
           /\ fileTag.atoms["----:com.apple.iTunes:initialkey"]
                  = IF source.key = <<>> THEN NoItem ELSE StringListItem(<< source.key >>)
           /\ fileTag.atoms["tmpo"].type # "none" <=> Bpm_hasValue(source.bpm)

\* track numbers that do not parse have left the atom trkn of the tag, the
\* year and the key have been written
C30_Witness ==
    /\ tPc = "exported" /\ exported.ret /\ fileTag.kind = "MP4"
    /\ exported.source.trackNumber = << "x" >>
    /\ exported.into.atoms["trkn"] = IntPairItem(7, 9)
    /\ fileTag.atoms["trkn"] = IntPairItem(7, 9)
    /\ fileTag.atoms["(c)day"] = StringListItem(<< << "1", "9", "9", "9" >> >>)
    /\ fileTag.atoms["----:com.apple.iTunes:initialkey"] = StringListItem(<< << "A", "m" >> >>)

(***************************************************************************)
(* Properties of the cover art imports.                                    *)
(***************************************************************************)
ImportedCover == tPc = "done" /\ call.op = "importCover" /\ ~call.nullArg

Decodes(bytes) == bytes # <<>> /\ bytes[1] = kImageMagic

\* the typed picture list of a tag
TypedPictures(tag) ==
    IF tag.kind = "Xiph" THEN tag.pictures
    ELSE LET frameList == FrameList(tag.frames, "APIC")
         IN  [i \in DOMAIN frameList |->
                 [type |-> frameList[i].type, data |-> frameList[i].picture]]

PreferredTypes == << "FrontCover", "Media", "Illustration", "Other" >>

\* the position of the picture that the selection rule names, 0 for none
SelectedPicture(pictures) ==
    LET decodable == {i \in DOMAIN pictures : Decodes(pictures[i].data)}
        OfRank(r) == {i \in decodable : pictures[i].type = PreferredTypes[r]}
        ranks == {r \in DOMAIN PreferredTypes : OfRank(r) # {}}
    IN  IF ranks # {} THEN MinOf(OfRank(MinOf(ranks)))
        ELSE IF decodable # {} THEN MinOf(decodable)
        ELSE 0

NoLegacyFields(tag) ==
    tag.legacy.METADATA_BLOCK_PICTURE = <<>> /\ tag.legacy.COVERART = <<>>

\* C23: the cover art of a typed picture list is the first decodable
\* picture of the first of the types FrontCover, Media, Illustration, Other
\* that has a decodable picture, else the first decodable picture of the
\* list, and without a decodable picture the list gives no image.
C23_CoverArtSelection ==
    (ImportedCover /\ fileTag.kind \in {"ID3v2", "Xiph"})
    => LET pictures == TypedPictures(fileTag)
           selected == SelectedPicture(pictures)
       IN  /\ selected # 0 => cover = pictures[selected].data
           /\ (selected = 0 /\ NoLegacyFields(fileTag)) => cover = pre.cover

\* an undecodable FrontCover, then an Other, then an Illustration: the
\* Illustration is the cover
C23_Witness ==
    /\ ImportedCover /\ fileTag.kind = "Xiph"
    /\ fileTag.pictures = << [type |-> "FrontCover", data |-> << 0, 1 >>],
                             [type |-> "Other", data |-> << kImageMagic, 2 >>],
                             [type |-> "Illustration", data |-> << kImageMagic, 3 >>] >>
    /\ cover = << kImageMagic, 3 >>

\* the entries of a legacy field that parse and decode
GoodPictureBlocks(tag) ==
    {i \in DOMAIN tag.legacy.METADATA_BLOCK_PICTURE :
        LET picture == parseBase64EncodedVorbisCommentPicture(
                           tag.legacy.METADATA_BLOCK_PICTURE[i])
        IN  picture.ok /\ Decodes(picture.data)}

GoodCoverArts(tag) ==
    {i \in DOMAIN tag.legacy.COVERART : Decodes(fromBase64(tag.legacy.COVERART[i]).bytes)}

\* C24: the Vorbis Comment cover art comes from METADATA_BLOCK_PICTURE
\* only if the picture list gives no image, and from COVERART only if
\* neither gives one; in a legacy field the first entry that parses and
\* decodes is taken; when all three give none the cover image is the one
\* of before the call.
C24_LegacyCoverArtChain ==
    (ImportedCover /\ fileTag.kind = "Xiph")
    => LET selected == SelectedPicture(fileTag.pictures)
           pictureBlocks == GoodPictureBlocks(fileTag)
           coverArts == GoodCoverArts(fileTag)
       IN  cover =
               IF selected # 0 THEN fileTag.pictures[selected].data
               ELSE IF pictureBlocks # {}
               THEN parseBase64EncodedVorbisCommentPicture(
                        fileTag.legacy.METADATA_BLOCK_PICTURE[MinOf(pictureBlocks)]).data
               ELSE IF coverArts # {}
               THEN fromBase64(fileTag.legacy.COVERART[MinOf(coverArts)]).bytes
               ELSE pre.cover

\* the picture list holds an undecodable picture, the first entry of
\* METADATA_BLOCK_PICTURE does not parse, the second one is the cover
\* although COVERART holds an image
C24_Witness ==
    /\ ImportedCover /\ fileTag.kind = "Xiph"
    /\ fileTag.pictures = << [type |-> "FrontCover", data |-> << 0, 1 >>] >>
    /\ fileTag.legacy.METADATA_BLOCK_PICTURE
           = << toBase64(BE32(3) \o BE32(5) \o << kImageMagic, 11 >>),
                toBase64(BE32(3) \o BE32(2) \o << kImageMagic, 12 >>) >>
    /\ fileTag.legacy.COVERART = << toBase64(<< kImageMagic, 21 >>) >>
    /\ pre.cover = PriorCover
    /\ cover = << kImageMagic, 12 >>

\* C25: the APE cover art is decoded from the bytes after the first null
\* byte of the item COVER ART (FRONT), also when the item starts with the
\* null byte; without the item, without a null byte or when the bytes do
\* not decode the cover image is the one of before the call.
C25_APECoverArt ==
    (ImportedCover /\ fileTag.kind = "APE")
    => LET value == fileTag.apeCover.value
           nulls == {i \in DOMAIN value : value[i] = 0}
           imageData == SubSeq(value, MinOf(nulls) + 1, Len(value))
       IN  cover = IF fileTag.apeCover.present /\ nulls # {} /\ Decodes(imageData)
                   THEN imageData
                   ELSE pre.cover

\* the item starts with the null byte
C25_Witness ==
    /\ ImportedCover /\ fileTag.kind = "APE"
    /\ fileTag.apeCover = [present |-> TRUE, value |-> << 0, kImageMagic, 2 >>]
    /\ pre.cover = PriorCover
    /\ cover = << kImageMagic, 2 >>

(***************************************************************************)
(* Properties of the ID3v2 frame writes.                                   *)
(***************************************************************************)
\* the frames of an id after a write of text
WrittenFrames(id, text) ==
    IF text = <<>> THEN <<>> ELSE << TextIdentificationFrame(id, text) >>

\* the text frames that every successful export writes, with their texts
AlwaysWrittenFrames(trackMetadata) ==
    { [id |-> "TRCK",
       text |-> joinStrings(trackMetadata.trackNumber, trackMetadata.trackTotal)],
      [id |-> "TPE2", text |-> trackMetadata.albumArtist],
      [id |-> "TCOM", text |-> trackMetadata.composer],
      [id |-> "TIT1", text |-> trackMetadata.grouping],
      [id |-> "TBPM", text |-> Digits(Bpm_valueToInteger(trackMetadata.bpm))],
      [id |-> "TKEY", text |-> trackMetadata.key] }

\* C26: a text frame write leaves exactly one frame of the id with the
\* text, or none for the empty text, however many frames of the id the tag
\* held; this holds for TRCK, TPE2, TCOM, TIT1, TBPM and TKEY in every
\* successful export and for TDRC, TYER and TDAT where the export writes
\* them; frames of ids that the export does not write stay.
C26_TextFrameReplaced ==
    (exported.done /\ exported.ret /\ fileTag.kind = "ID3v2")
    => LET before == exported.into
           source == exported.source
           date == parseDate(source.year)
           calendarYear == formatCalendarYear(source.year)
       IN  /\ \A write \in AlwaysWrittenFrames(source) :
                  FrameList(fileTag.frames, write.id) = WrittenFrames(write.id, write.text)
           /\ (before.header >= 4 \/ FrameList(before.frames, "TDRC") # <<>>)
                  => FrameList(fileTag.frames, "TDRC") = WrittenFrames("TDRC", source.year)
           /\ (before.header < 4 /\ date.valid)
                  => /\ FrameList(fileTag.frames, "TYER")
                            = WrittenFrames("TYER", ID3V2_TYER_FORMAT(date))
                     /\ FrameList(fileTag.frames, "TDAT")
                            = WrittenFrames("TDAT", ID3V2_TDAT_FORMAT(date))
           /\ (before.header < 4 /\ ~date.valid /\ calendarYear.valid)
                  => FrameList(fileTag.frames, "TYER")
                         = WrittenFrames("TYER", calendarYear.text)
           /\ FrameList(fileTag.frames, "APIC") = FrameList(before.frames, "APIC")

\* two TPE2 frames have become one and the TKEY frames are gone
C26_Witness ==
    /\ tPc = "exported" /\ exported.ret /\ fileTag.kind = "ID3v2"
    /\ Len(FrameList(exported.into.frames, "TPE2")) = 2
    /\ Len(FrameList(exported.into.frames, "TKEY")) = 2
    /\ exported.source.albumArtist = << "a" >>
    /\ exported.source.key = <<>>
    /\ FrameList(fileTag.frames, "TPE2") = << TextIdentificationFrame("TPE2", << "a" >>) >>
    /\ FrameList(fileTag.frames, "TKEY") = <<>>

HasEmptyDescription(frame) == EqualsIgnoreCase(frame.description, <<>>)
HasOtherDescription(frame) == ~HasEmptyDescription(frame)

\* C27: a successful ID3v2 export changes or removes at most one COMM
\* frame, one with the empty description; the COMM frames of any other
\* description are after the export what they were before.
C27_SpecialCommentsKept ==
    (exported.done /\ exported.ret /\ fileTag.kind = "ID3v2")
    => LET before == FrameList(exported.into.frames, "COMM")
           after == FrameList(fileTag.frames, "COMM")
       IN  /\ SelectSeq(after, HasOtherDescription) = SelectSeq(before, HasOtherDescription)
           /\ \/ after = before
              \/ \E i \in DOMAIN before :
                    /\ HasEmptyDescription(before[i])
                    /\ \/ after = RemoveAt(before, i)
                       \/ /\ Len(after) = Len(before)
                          /\ HasEmptyDescription(after[i])
                          /\ \A j \in DOMAIN before \ {i} : after[j] = before[j]
              \/ /\ \A i \in DOMAIN before : HasOtherDescription(before[i])
                 /\ Len(after) = Len(before) + 1
                 /\ SubSeq(after, 1, Len(before)) = before
                 /\ HasEmptyDescription(after[Len(after)])

\* the comment n has replaced the first of two comments behind the frame
\* iTunSMPB
C27_Witness ==
    /\ tPc = "exported" /\ exported.ret /\ fileTag.kind = "ID3v2"
    /\ exported.into.frames = << CommentsFrame(iTunSMPB, << "s" >>),
                                 CommentsFrame(<<>>, P), CommentsFrame(<<>>, Q) >>
    /\ exported.source.comment = << "n" >>
    /\ FrameList(fileTag.frames, "COMM")
           = << CommentsFrame(iTunSMPB, << "s" >>),
                CommentsFrame(<<>>, << "n" >>), CommentsFrame(<<>>, Q) >>

\* the TXXX frame of a description that the import reads, 0 for none
FoundUserTextFrame(tag, description) ==
    findFirstUserTextIdentificationFrame(tag.frames, description, TRUE)

IsShortFrame(tag, pFrame) == pFrame # 0 /\ Len(tag.frames[pFrame].fieldList) < 2

\* C28: the ID3v2 import skips a TXXX frame REPLAYGAIN_TRACK_GAIN,
\* REPLAYGAIN_TRACK_PEAK or COMMENT that has fewer than two fields: the
\* call returns and the value is the one of before the frame was looked up.
C28_SecondFieldGuarded ==
    (tPc = "done" /\ call.op = "import" /\ ~call.nullArg
        /\ fileTag.kind = "ID3v2" /\ fileTag.header # 0)
    => /\ IsShortFrame(fileTag, FoundUserTextFrame(fileTag, REPLAYGAIN_TRACK_GAIN))
              => /\ call.ret = "void"
                 /\ tm.replayGain.ratio = pre.tm.replayGain.ratio
       /\ IsShortFrame(fileTag, FoundUserTextFrame(fileTag, REPLAYGAIN_TRACK_PEAK))
              => /\ call.ret = "void"
                 /\ tm.replayGain.peak = pre.tm.replayGain.peak
       /\ (/\ findFirstCommentsFrame(fileTag.frames, <<>>, TRUE) = 0
           /\ IsShortFrame(fileTag, FoundUserTextFrame(fileTag, COMMENT)))
              => /\ call.ret = "void"
                 /\ tm.comment = importTrackMetadataFromTag(pre.tm, fileTag).comment

(***************************************************************************)
(* Properties of the imports into a model that holds values.               *)
(***************************************************************************)
\* the model that the import of a tag gives from a fresh model
ImportedFresh(tag) ==
    IF tag.kind = "ID3v2" THEN importTrackMetadataFromID3v2Tag(TrackMetadata, tag, <<>>).tm
    ELSE IF tag.kind = "APE" THEN importTrackMetadataFromAPETag(TrackMetadata, tag)
    ELSE IF tag.kind = "Xiph" THEN importTrackMetadataFromVorbisCommentTag(TrackMetadata, tag)
    ELSE importTrackMetadataFromMP4Tag(TrackMetadata, tag)

\* the tag holds a TXXX frame of the description
HasUserTextFrame(tag, description) ==
    \E i \in FrameIndexes(tag.frames, "TXXX") :
        EqualsIgnoreCase(FrameDescription(tag.frames[i]), description)

\* the frames, items, fields and atoms that correspond to a field of the
\* model
EntriesOf(kind, field) ==
    IF kind = "ID3v2"
    THEN IF field = "year" THEN {"TDRC", "TYER"}
         ELSE IF field \in {"trackNumber", "trackTotal"} THEN {"TRCK"}
         ELSE IF field = "bpm" THEN {"TBPM"}
         ELSE {ID3v2FrameOf(field)}
    ELSE IF kind = "APE"
    THEN IF field = "year" THEN {"Year"}
         ELSE IF field \in {"trackNumber", "trackTotal"} THEN {"Track"}
         ELSE IF field = "bpm" THEN {"BPM"}
         ELSE IF field = "ratio" THEN {"REPLAYGAIN_TRACK_GAIN"}
         ELSE IF field = "peak" THEN {"REPLAYGAIN_TRACK_PEAK"}
         ELSE IF field = "key" THEN {}
         ELSE {APEItemOf(field)}
    ELSE IF kind = "Xiph"
    THEN IF field = "year" THEN {"DATE"}
         ELSE IF field = "trackNumber" THEN {"TRACKNUMBER"}
         ELSE IF field = "trackTotal" THEN {"TRACKNUMBER", "TRACKTOTAL", "TOTALTRACKS"}
         ELSE IF field = "bpm" THEN {"TEMPO", "BPM"}
         ELSE IF field = "ratio" THEN {"REPLAYGAIN_TRACK_GAIN"}
         ELSE IF field = "peak" THEN {"REPLAYGAIN_TRACK_PEAK"}
         ELSE XiphFieldsOf(field)
    ELSE IF field = "year" THEN {"(c)day"}
         ELSE IF field \in {"trackNumber", "trackTotal"} THEN {"trkn"}
         ELSE IF field = "bpm" THEN {"----:com.apple.iTunes:BPM", "tmpo"}
         ELSE IF field = "ratio" THEN {"----:com.apple.iTunes:replaygain_track_gain"}
         ELSE IF field = "peak" THEN {"----:com.apple.iTunes:replaygain_track_peak"}
         ELSE MP4AtomsOf(field)

\* the tag holds an entry that corresponds to the field
HasEntryOf(tag, field) ==
    IF tag.kind = "ID3v2" /\ field = "ratio" THEN HasUserTextFrame(tag, REPLAYGAIN_TRACK_GAIN)
    ELSE IF tag.kind = "ID3v2" /\ field = "peak"
    THEN HasUserTextFrame(tag, REPLAYGAIN_TRACK_PEAK)
    ELSE \E k \in EntriesOf(tag.kind, field) :
            IF tag.kind = "ID3v2" THEN FrameIndexes(tag.frames, k) # {}
            ELSE IF tag.kind = "MP4" THEN tag.atoms[k].type # "none"
            ELSE tag.fields[k] # <<>>

\* the fields that an import keeps, ratio and peak for the replay gain
KeptFields ==
    {"albumArtist", "composer", "grouping", "key", "year", "trackNumber", "trackTotal",
     "bpm", "ratio", "peak"}

FieldOf(trackMetadata, field) ==
    IF field = "ratio" THEN trackMetadata.replayGain.ratio
    ELSE IF field = "peak" THEN trackMetadata.replayGain.peak
    ELSE trackMetadata[field]

\* C29: an import gives title, artist, album, comment and genre from the
\* tag alone, whatever the model held; albumArtist, composer, grouping,
\* key, year, trackNumber, trackTotal, bpm and the replay gain are those of
\* before the call when the tag holds no entry that corresponds to them.
C29_ImportKeepsPrior ==
    (Imported /\ fileTag.kind \in {"ID3v2", "APE", "Xiph", "MP4"})
    => /\ tm.title = fileTag.std.title
       /\ tm.artist = fileTag.std.artist
       /\ tm.genre = fileTag.std.genre
       /\ fileTag.std.album # <<>> => tm.album = fileTag.std.album
       /\ tm.album = ImportedFresh(fileTag).album
       /\ tm.comment = ImportedFresh(fileTag).comment
       /\ \A field \in KeptFields :
              ~HasEntryOf(fileTag, field) => FieldOf(tm, field) = FieldOf(pre.tm, field)

\* a tag with the generic fields and a composer has been imported into the
\* model with values: the composer is the one of the tag, its neighbours
\* are those of the model
C29_Witness ==
    /\ Imported /\ fileTag.kind = "APE" /\ pre.tm = FullModel
    /\ fileTag.std = PriorStd
    /\ fileTag.fields["Composer"] = << P >>
    /\ fileTag.fields["Year"] = <<>>
    /\ tm.title = P /\ tm.comment = <<>> /\ tm.composer = P
    /\ tm.albumArtist = FullModel.albumArtist
    /\ tm.year = FullModel.year
    /\ tm.bpm = FullModel.bpm
    /\ tm.replayGain = FullModel.replayGain

=============================================================================
